---- MODULE Spec2Model ----
(***************************************************************************)
(* Ricochet Robots solver: the board model, the move simulator, the        *)
(* least-moves heuristic board, the visited-node table and the three       *)
(* optimal solvers (BreadthFirst, AStar, IdaStar), as a state machine      *)
(* whose actions are the calls of `solve` and the iterations of the        *)
(* solvers' main loops.                                                    *)
(***************************************************************************)
EXTENDS Integers, Sequences, FiniteSets, TLC

(***************************************************************************)
(* Bounds of the model.                                                    *)
(***************************************************************************)
\* The breadth-first loop `for move_n in 0..` is followed up to this move number.
MaxMoveN == 6
\* The deepening loop `for i in start..` of IDA* is followed up to this bound.
MaxDepth == 6
\* add_node is called with up to this many moves.
MaxCost == 3

\* The `loop` of path_to is followed for this many iterations when path_to is called on a
\* table that no solve has built.
MaxPath == 3

\* The `while` loop of move_in_direction is followed for this many iterations.
MaxLoops == 6

(***************************************************************************)
(* Position: a (column, row) pair packed into a PositionEncoding (u16).    *)
(***************************************************************************)
BIT_COUNT == 16

PositionEncodingMax == 2^BIT_COUNT - 1

\* Bitwise exclusive or of two naturals, bit by bit.
RECURSIVE BitXor(_, _)
BitXor(a, b) ==
    IF a = 0 THEN b
    ELSE IF b = 0 THEN a
    ELSE (((a % 2) + (b % 2)) % 2) + (2 * BitXor(a \div 2, b \div 2))

\* `<<` on PositionEncoding: bits shifted beyond the width are lost.
Shl(x, n) == (x * 2^n) % 2^BIT_COUNT

\* `>>` on PositionEncoding.
Shr(x, n) == x \div 2^n

ROW_FLAG == 2^(BIT_COUNT \div 2) - 1

COLUMN_FLAG == BitXor(ROW_FLAG, PositionEncodingMax)

\* `a & ROW_FLAG`: ROW_FLAG is the low half of the bits.
AndRowFlag(a) == a % (ROW_FLAG + 1)

\* `a & COLUMN_FLAG`: COLUMN_FLAG is the high half of the bits.
AndColumnFlag(a) == a - AndRowFlag(a)

\* `hi ^ lo`; when the set bits of the operands do not overlap the result is the sum.
Xor(hi, lo) ==
    IF hi % (ROW_FLAG + 1) = 0 /\ lo <= ROW_FLAG THEN hi + lo ELSE BitXor(hi, lo)

PositionNew(column, row) == Xor(Shl(column, BIT_COUNT \div 2), row)

column(p) == Shr(p, BIT_COUNT \div 2)

\* A variant of row: the bits of the column are not taken away.
row_unmasked(p) == p

row(p) == AndRowFlag(p)

set_column(p, c) == Xor(Shl(c, BIT_COUNT \div 2), row(p))

set_row(p, r) == Xor(AndColumnFlag(p), r)

DIRECTIONS == <<"Up", "Down", "Right", "Left">>

ROBOTS == <<"Red", "Blue", "Green", "Yellow">>

Direction == {"Up", "Down", "Right", "Left"}

Robot == {"Red", "Blue", "Green", "Yellow"}

\* A variant of to_direction: Up and Down lead to each other's field.
to_direction_mirrored(p, direction, side_length) ==
    CASE direction = "Right" -> set_column(p, (column(p) + 1) % side_length)
      [] direction = "Left" -> set_column(p, (column(p) + side_length - 1) % side_length)
      [] direction = "Down" -> set_row(p, (row(p) + side_length - 1) % side_length)
      [] direction = "Up" -> set_row(p, (row(p) + 1) % side_length)

\* Moves the position one field to `direction`, wrapping around at the edge.
to_direction(p, direction, side_length) ==
    CASE direction = "Right" -> set_column(p, (column(p) + 1) % side_length)
      [] direction = "Left" -> set_column(p, (column(p) + side_length - 1) % side_length)
      [] direction = "Up" -> set_row(p, (row(p) + side_length - 1) % side_length)
      [] direction = "Down" -> set_row(p, (row(p) + 1) % side_length)

(***************************************************************************)
(* Board: walls[column][row] is a Field with the walls to the right and    *)
(* the bottom of the field.                                                *)
(***************************************************************************)
FieldDefault == [down |-> FALSE, right |-> FALSE]

\* vec![elem; n]: n copies of elem at the indices 0..n-1.
RECURSIVE vec(_, _)
vec(elem, n) == IF n = 0 THEN <<>> ELSE vec(elem, n - 1) @@ ((n - 1) :> elem)

new_empty(side) == [walls |-> vec(vec(FieldDefault, side), side)]

side_length(board) == Cardinality(DOMAIN board.walls)

\* Starting from [col, row] sets `len` fields downwards to have a wall on the right side.
set_vertical_line(board, col, row_, len) ==
    [walls |-> [c \in DOMAIN board.walls |-> [r \in DOMAIN board.walls[c] |->
        IF c = col /\ r \in row_..(row_ + len - 1)
        THEN [board.walls[c][r] EXCEPT !.right = TRUE]
        ELSE board.walls[c][r]]]]

\* Starting from [col, row] sets `width` fields to the right to have a wall on the bottom side.
set_horizontal_line(board, col, row_, width) ==
    [walls |-> [c \in DOMAIN board.walls |-> [r \in DOMAIN board.walls[c] |->
        IF r = row_ /\ c \in col..(col + width - 1)
        THEN [board.walls[c][r] EXCEPT !.down = TRUE]
        ELSE board.walls[c][r]]]]

\* A variant of enclose_lengths: the upper and the left line are set on the first row and the
\* first column of the rectangle.
enclose_lengths_inside(board, col, row_, len, width) ==
    LET board_size == side_length(board)
        bottom_row == IF row_ + len > board_size THEN board_size - 1 ELSE row_ + len - 1
        right_col == IF col + width > board_size THEN board_size - 1 ELSE col + width - 1
    IN  set_vertical_line(
            set_vertical_line(
                set_horizontal_line(
                    set_horizontal_line(board, col, row_, width),
                    col, bottom_row, width),
                col, row_, len),
            right_col, row_, len)

enclose_lengths(board, col, row_, len, width) ==
    LET board_size == side_length(board)
        top_row == IF row_ = 0 THEN board_size - 1 ELSE row_ - 1
        bottom_row == IF row_ + len > board_size THEN board_size - 1 ELSE row_ + len - 1
        left_col == IF col = 0 THEN board_size - 1 ELSE col - 1
        right_col == IF col + width > board_size THEN board_size - 1 ELSE col + width - 1
    IN  set_vertical_line(
            set_vertical_line(
                set_horizontal_line(
                    set_horizontal_line(board, col, top_row, width),
                    col, bottom_row, width),
                left_col, row_, len),
            right_col, row_, len)

wall_enclosure(board) ==
    enclose_lengths(board, 0, 0, side_length(board), side_length(board))

\* A variant of is_adjacent_to_wall: Left reads the right wall of the field itself.
is_adjacent_to_wall_own_right(board, pos, direction) ==
    CASE direction = "Right" -> board.walls[column(pos)][row(pos)].right
      [] direction = "Down" -> board.walls[column(pos)][row(pos)].down
      [] direction = "Left" -> board.walls[column(pos)][row(pos)].right
      [] direction = "Up" ->
            LET p == to_direction(pos, "Up", side_length(board))
            IN  board.walls[column(p)][row(p)].down

\* A variant of is_adjacent_to_wall: Up reads the bottom wall of the field itself.
is_adjacent_to_wall_own_down(board, pos, direction) ==
    CASE direction = "Right" -> board.walls[column(pos)][row(pos)].right
      [] direction = "Down" -> board.walls[column(pos)][row(pos)].down
      [] direction = "Left" ->
            LET p == to_direction(pos, "Left", side_length(board))
            IN  board.walls[column(p)][row(p)].right
      [] direction = "Up" -> board.walls[column(pos)][row(pos)].down

\* Checks if a wall is next to `pos` in the given `direction`.
is_adjacent_to_wall(board, pos, direction) ==
    CASE direction = "Right" -> board.walls[column(pos)][row(pos)].right
      [] direction = "Down" -> board.walls[column(pos)][row(pos)].down
      [] direction = "Left" ->
            LET p == to_direction(pos, "Left", side_length(board))
            IN  board.walls[column(p)][row(p)].right
      [] direction = "Up" ->
            LET p == to_direction(pos, "Up", side_length(board))
            IN  board.walls[column(p)][row(p)].down

(***************************************************************************)
(* RobotPositions: the positions of the four robots, one field per robot.  *)
(***************************************************************************)
from_tuples(positions) ==
    [Red |-> PositionNew(positions[1][1], positions[1][2]),
     Blue |-> PositionNew(positions[2][1], positions[2][2]),
     Green |-> PositionNew(positions[3][1], positions[3][2]),
     Yellow |-> PositionNew(positions[4][1], positions[4][2])]

\* RobotPositions::to_array: the order [red, blue, green, yellow]; the index k of the array is
\* the index k + 1 of the sequence.
to_array(self) == <<self.Red, self.Blue, self.Green, self.Yellow>>

\* <[T]>::swap(a, b), a and b being indices of the array.
swap(seq, a, b) ==
    [k \in DOMAIN seq |-> IF k = a + 1 THEN seq[b + 1] ELSE IF k = b + 1 THEN seq[a + 1] ELSE seq[k]]

\* Puts x into the ascending sequence seq; Position is ordered by its encoding (derive Ord).
RECURSIVE insert(_, _)
insert(seq, x) ==
    IF seq = <<>> THEN <<x>>
    ELSE IF x <= seq[1] THEN <<x>> \o seq
    ELSE <<seq[1]>> \o insert(Tail(seq), x)

\* <[T]>::sort
RECURSIVE sort(_)
sort(seq) == IF seq = <<>> THEN <<>> ELSE insert(sort(Tail(seq)), seq[1])

\* `seq[lo..hi].sort()`: the range lo..hi holds the indices lo to hi - 1 of the array.
sort_range(seq, lo, hi) ==
    LET sorted == sort(SubSeq(seq, lo + 1, hi))
    IN  [k \in DOMAIN seq |-> IF k \in (lo + 1)..hi THEN sorted[k - lo] ELSE seq[k]]

\* The positions as an array with `main_robot` at index 0: swap(0, robot_index), then
\* `sorted[1..3].sort()`.
to_sorted_array(self, main_robot) ==
    LET robot_index == CASE main_robot = "Red" -> 0 [] main_robot = "Blue" -> 1
                         [] main_robot = "Green" -> 2 [] main_robot = "Yellow" -> 3
    IN  sort_range(swap(to_array(self), 0, robot_index), 1, 3)

\* A variant of set_robot: a move of Green also puts Yellow on the new position.
set_robot_green_arm(self, robot, new_position) ==
    IF robot = "Green"
    THEN [self EXCEPT !.Green = new_position, !.Yellow = new_position]
    ELSE [self EXCEPT ![robot] = new_position]

set_robot(self, robot, new_position) == [self EXCEPT ![robot] = new_position]

contains_any_robot(self, pos) ==
    pos = self.Red \/ pos = self.Blue \/ pos = self.Green \/ pos = self.Yellow

contains_colored_robot(self, robot, pos) == pos = self[robot]

adjacent_reachable(self, board, pos, direction) ==
    /\ ~is_adjacent_to_wall(board, pos, direction)
    /\ ~contains_any_robot(self, to_direction(pos, direction, side_length(board)))

\* The `while` loop of move_in_direction, from temp_pos on.
RECURSIVE slide(_, _, _, _)
slide(self, board, temp_pos, direction) ==
    IF adjacent_reachable(self, board, temp_pos, direction)
    THEN slide(self, board, to_direction(temp_pos, direction, side_length(board)), direction)
    ELSE temp_pos

\* Moves `robot` as far in the given `direction` as possible.
move_in_direction(self, board, robot, direction) ==
    set_robot(self, robot, slide(self, board, self[robot], direction))

\* A variant of RobotDirections: the directions are the outer loop.
DirectionRobots ==
    [k \in 1..16 |-> <<ROBOTS[((k - 1) % 4) + 1], DIRECTIONS[((k - 1) \div 4) + 1]>>]

\* ROBOTS x DIRECTIONS in iteration order (cartesian_product).
RobotDirections ==
    [k \in 1..16 |-> <<ROBOTS[((k - 1) \div 4) + 1], DIRECTIONS[((k - 1) % 4) + 1]>>]

RECURSIVE reachable_from(_, _, _)
reachable_from(self, board, k) ==
    IF k > Len(RobotDirections) THEN <<>>
    ELSE LET rd == RobotDirections[k]
             pos == move_in_direction(self, board, rd[1], rd[2])
         IN  IF pos # self
             THEN <<(<<pos, rd>>)>> \o reachable_from(self, board, k + 1)
             ELSE reachable_from(self, board, k + 1)

\* All positions reachable in one move that differ from `self`, with the move.
reachable_positions(self, board) == reachable_from(self, board, 1)

(***************************************************************************)
(* Round: board, target and target position.  A Target is "Spiral" or the  *)
(* colour of the robot that has to reach it (the symbol of a coloured      *)
(* target plays no part in the search).                                    *)
(***************************************************************************)
Target == {"Red", "Blue", "Green", "Yellow", "Spiral"}

RoundNew(board, target, target_position) ==
    [board |-> board, target |-> target, target_position |-> target_position]

\* TryFrom<Target> for Robot: Ok(colour) as <<colour>>, Err as <<>>.
try_into(target) == IF target = "Spiral" THEN <<>> ELSE <<target>>

\* A variant of target_reached: any robot reaches a coloured target.
target_reached_any(round, positions) ==
    contains_any_robot(positions, round.target_position)

target_reached(round, positions) ==
    IF round.target = "Spiral"
    THEN contains_any_robot(positions, round.target_position)
    ELSE contains_colored_robot(positions, try_into(round.target)[1], round.target_position)

(***************************************************************************)
(* Path: the result of a solve.  A solve that panics yields a Panic.       *)
(***************************************************************************)
PathNew(start_pos, end_pos, movements) ==
    [start_pos |-> start_pos, end_pos |-> end_pos, movements |-> movements]

\* A variant of new_start_on_target: the path holds a movement.
new_start_with_movement(start_pos) == PathNew(start_pos, start_pos, <<(<<"Red", "Up">>)>>)

new_start_on_target(start_pos) == PathNew(start_pos, start_pos, <<>>)

Panic(message) == [panic |-> message]

IsPath(r) == "movements" \in DOMAIN r

IsPanic(r) == "panic" \in DOMAIN r

\* Path::len
len(path) == Len(path.movements)

(***************************************************************************)
(* VisitedNodes: a map from RobotPositions to BasicVisitedNode.            *)
(***************************************************************************)
\* VisitedNodes::with_capacity and VisitedNodes::clear: no stored node.
NoNodes == <<>>

BasicVisitedNodeNew(moves, previous_position, movement) ==
    [moves_to_reach |-> moves, previous_position |-> previous_position,
     robot |-> movement[1], direction |-> movement[2]]

reached_with(node) == <<node.robot, node.direction>>

\* A variant of Discards: only an entry with fewer moves lets the new node be discarded.
DiscardsOnlyFewer(stored, moves) == stored < moves

\* The stored moves of an occupied entry are no more than `moves`: the new node is discarded.
Discards(stored, moves) == stored <= moves

\* A variant of add_node: an occupied entry is never written.
add_node_keeping(nodes, positions, from, moves, moved) ==
    IF positions \in DOMAIN nodes
    THEN IF Discards(nodes[positions].moves_to_reach, moves)
         THEN [outcome |-> "BetterKnown", nodes |-> nodes]
         ELSE [outcome |-> "WorseKnown", nodes |-> nodes]
    ELSE [outcome |-> "New",
          nodes |-> (positions :> BasicVisitedNodeNew(moves, from, moved)) @@ nodes]

\* Adds a node at `positions`; yields the outcome and the map after the call.
add_node(nodes, positions, from, moves, moved) ==
    IF positions \in DOMAIN nodes
    THEN IF Discards(nodes[positions].moves_to_reach, moves)
         THEN [outcome |-> "BetterKnown", nodes |-> nodes]
         ELSE [outcome |-> "WorseKnown",
               nodes |-> [nodes EXCEPT ![positions] = BasicVisitedNodeNew(moves, from, moved)]]
    ELSE [outcome |-> "New",
          nodes |-> (positions :> BasicVisitedNodeNew(moves, from, moved)) @@ nodes]

was_added(outcome) == outcome \in {"New", "WorseKnown"}

was_discarded(outcome) == ~was_added(outcome)

\* A variant of Reverse: the sequence is left in its order.
Unreversed(seq) == seq

Reverse(seq) == [k \in 1..Len(seq) |-> seq[Len(seq) + 1 - k]]

\* The `loop` of path_to: follows the previous positions from current_pos.
RECURSIVE path_loop(_, _, _, _)
path_loop(nodes, positions, current_pos, path) ==
    IF current_pos \notin DOMAIN nodes
    THEN Panic("Failed to find a supposed source position")
    ELSE LET current_node == nodes[current_pos]
             pushed == Append(path, reached_with(current_node))
         IN  IF current_node.moves_to_reach = 1
             THEN PathNew(current_node.previous_position, positions, Reverse(pushed))
             ELSE path_loop(nodes, positions, current_node.previous_position, pushed)

\* A variant of path_to: the path holds the last movement only.
path_to_last_movement(nodes, positions) ==
    IF positions \notin DOMAIN nodes
    THEN Panic("Failed to find a supposed source position")
    ELSE PathNew(nodes[positions].previous_position, positions,
                 <<reached_with(nodes[positions])>>)

\* Returns the shortest known path to `positions`; panics if a position on the way is unknown.
path_to(nodes, positions) == path_loop(nodes, positions, positions, <<>>)

(***************************************************************************)
(* LeastMovesBoard: board[column][row] is a lower bound of the moves a     *)
(* robot on that field needs to reach the target.                          *)
(***************************************************************************)
LeastMovesBoardDefault == [board |-> <<>>, target_position |-> 0]

\* A variant of walk: only the field in front of the wall is given the move number.
RECURSIVE walk_to_wall(_, _, _, _, _, _)
walk_to_wall(board, acc, check_pos, dir, move_n, len_) ==
    IF is_adjacent_to_wall(board, check_pos, dir) THEN acc
    ELSE LET next_pos == to_direction(check_pos, dir, len_)
             current_min == acc.move_board[column(next_pos)][row(next_pos)]
         IN  IF move_n < current_min /\ is_adjacent_to_wall(board, next_pos, dir)
             THEN walk_to_wall(board,
                       [acc EXCEPT !.move_board[column(next_pos)][row(next_pos)] = move_n,
                                   !.next_moves = Append(acc.next_moves, next_pos)],
                       next_pos, dir, move_n, len_)
             ELSE walk_to_wall(board, acc, next_pos, dir, move_n, len_)

\* The inner `loop`: walks from check_pos in direction dir until a wall is adjacent.
RECURSIVE walk(_, _, _, _, _, _)
walk(board, acc, check_pos, dir, move_n, len_) ==
    IF is_adjacent_to_wall(board, check_pos, dir) THEN acc
    ELSE LET next_pos == to_direction(check_pos, dir, len_)
             current_min == acc.move_board[column(next_pos)][row(next_pos)]
         IN  IF move_n < current_min
             THEN walk(board,
                       [acc EXCEPT !.move_board[column(next_pos)][row(next_pos)] = move_n,
                                   !.next_moves = Append(acc.next_moves, next_pos)],
                       next_pos, dir, move_n, len_)
             ELSE walk(board, acc, next_pos, dir, move_n, len_)

\* `for &pos in &current_moves { for &dir in DIRECTIONS.iter() {..} }` from step acc.step on:
\* step n walks from the position (n - 1) \div 4 + 1 in the direction (n - 1) % 4 + 1.
RECURSIVE walk_positions(_, _, _, _, _)
walk_positions(board, acc, current_moves, move_n, len_) ==
    IF acc.step > Len(current_moves) * Len(DIRECTIONS) THEN acc
    ELSE LET pos == current_moves[((acc.step - 1) \div Len(DIRECTIONS)) + 1]
             dir == DIRECTIONS[((acc.step - 1) % Len(DIRECTIONS)) + 1]
             walked == walk(board, acc, pos, dir, move_n, len_)
         IN  walk_positions(board, [walked EXCEPT !.step = acc.step + 1],
                            current_moves, move_n, len_)

\* `for move_n in 1usize..` from move_n on.
RECURSIVE least_moves_loop(_, _, _, _, _)
least_moves_loop(board, move_board, current_moves, move_n, len_) ==
    LET acc == walk_positions(board,
                              [move_board |-> move_board, next_moves |-> <<>>, step |-> 1],
                              current_moves, move_n, len_)
    IN  IF acc.next_moves = <<>> THEN acc.move_board
        ELSE least_moves_loop(board, acc.move_board, acc.next_moves, move_n + 1, len_)

\* A variant of LeastMovesBoardNew: the fields next to the target position count no move.
LeastMovesBoardNewFromZero(board, target_position) ==
    LET len_ == side_length(board)
        initial == vec(vec(len_ * len_, len_), len_)
        seeded == [initial EXCEPT ![column(target_position)][row(target_position)] = 0]
    IN  [board |-> least_moves_loop(board, seeded, <<target_position>>, 0, len_),
         target_position |-> target_position]

\* A variant of LeastMovesBoardNew: the fields start with the side length as their bound.
LeastMovesBoardNewSideBound(board, target_position) ==
    LET len_ == side_length(board)
        initial == vec(vec(len_, len_), len_)
        seeded == [initial EXCEPT ![column(target_position)][row(target_position)] = 0]
    IN  [board |-> least_moves_loop(board, seeded, <<target_position>>, 1, len_),
         target_position |-> target_position]

LeastMovesBoardNew(board, target_position) ==
    LET len_ == side_length(board)
        initial == vec(vec(len_ * len_, len_), len_)
        seeded == [initial EXCEPT ![column(target_position)][row(target_position)] = 0]
    IN  [board |-> least_moves_loop(board, seeded, <<target_position>>, 1, len_),
         target_position |-> target_position]

\* Index<Position> for LeastMovesBoard
Index(self, index) == self.board[column(index)][row(index)]

\* A variant of SeqMin: the greatest element.
RECURSIVE SeqMax(_)
SeqMax(seq) ==
    IF Len(seq) = 1 THEN seq[1]
    ELSE LET m == SeqMax(Tail(seq)) IN IF seq[1] >= m THEN seq[1] ELSE m

\* Iterator::min of a non-empty sequence.
RECURSIVE SeqMin(_)
SeqMin(seq) ==
    IF Len(seq) = 1 THEN seq[1]
    ELSE LET m == SeqMin(Tail(seq)) IN IF seq[1] <= m THEN seq[1] ELSE m

\* Lower bound of the number of moves needed to reach the `target` with `robots`.
min_moves(self, robots, target) ==
    IF try_into(target) # <<>>
    THEN Index(self, robots[try_into(target)[1]])
    ELSE SeqMin([k \in 1..Len(ROBOTS) |-> Index(self, robots[ROBOTS[k]])])

\* A variant of is_unsolvable: the bound is compared with the side length.
is_unsolvable_by_side(self, robots, target) ==
    min_moves(self, robots, target) >= Cardinality(DOMAIN self.board)

\* A variant of is_unsolvable: no position is taken to be unsolvable.
never_unsolvable(self, robots, target) == FALSE

is_unsolvable(self, robots, target) ==
    min_moves(self, robots, target) >= Cardinality(DOMAIN self.board) ^ 2

(***************************************************************************)
(* BreadthFirst                                                            *)
(***************************************************************************)
None == <<>>

Some(x) == <<x>>

\* The `for` loop of eval_robot_state from the k-th reachable position on.
RECURSIVE eval_loop(_, _, _, _, _, _)
eval_loop(acc, round, initial_pos, moves, reachable, k) ==
    IF k > Len(reachable) THEN acc
    ELSE LET new_pos == reachable[k][1]
             added == add_node(acc.nodes, new_pos, initial_pos, moves + 1, reachable[k][2])
         IN  IF was_discarded(added.outcome)
             THEN eval_loop(acc, round, initial_pos, moves, reachable, k + 1)
             ELSE IF target_reached(round, new_pos)
             THEN [reached |-> Some(new_pos), nodes |-> added.nodes,
                   next_positions |-> acc.next_positions]
             ELSE eval_loop([reached |-> None, nodes |-> added.nodes,
                             next_positions |-> Append(acc.next_positions, new_pos)],
                            round, initial_pos, moves, reachable, k + 1)

\* Adds all unseen positions reachable from initial_pos; Some(position) if one reaches the target.
eval_robot_state(nodes, round, initial_pos, moves, next_positions) ==
    eval_loop([reached |-> None, nodes |-> nodes, next_positions |-> next_positions],
              round, initial_pos, moves, reachable_positions(initial_pos, round.board), 1)

\* `for pos in &current_move_positions` over the positions lo..hi of `current`, in order, for one
\* move number; the range is walked as its first half followed by its second half.
RECURSIVE bfs_level(_, _, _, _, _, _)
bfs_level(acc, round, current, lo, hi, move_n_) ==
    IF lo > hi THEN acc
    ELSE IF lo = hi
    THEN eval_robot_state(acc.nodes, round, current[lo], move_n_, acc.next_positions)
    ELSE LET mid == (lo + hi) \div 2
             r == bfs_level(acc, round, current, lo, mid, move_n_)
         IN  IF r.reached # None THEN r
             ELSE bfs_level(r, round, current, mid + 1, hi, move_n_)

(***************************************************************************)
(* AStar                                                                   *)
(***************************************************************************)
\* Stands for usize::MAX; the solver only compares move counts against it.
USIZE_MAX == 2147483647

MoveCounterNew(from_start, to_target) ==
    [total |-> from_start + to_target, from_start |-> from_start]

\* A variant of MoveCounterGreater: the greater total is the greater priority.
MoveCounterGreaterTotal(a, b) ==
    \/ a.total > b.total
    \/ a.total = b.total /\ a.from_start < b.from_start

\* The derived Ord of MoveCounter over (Reverse(total), Reverse(from_start)): a > b.
MoveCounterGreater(a, b) ==
    \/ a.total < b.total
    \/ a.total = b.total /\ a.from_start < b.from_start

\* PriorityQueue::push on a queue that does not hold the item.
push(queue, item, priority) == (item :> priority) @@ queue

\* PriorityQueue::push_increase: an item in the queue only ever gets a greater priority.
push_increase(queue, item, priority) ==
    IF item \in DOMAIN queue
    THEN IF MoveCounterGreater(priority, queue[item])
         THEN [queue EXCEPT ![item] = priority]
         ELSE queue
    ELSE (item :> priority) @@ queue

\* The items PriorityQueue::pop may return: those no other item has a greater priority than.
\* Which of several items of equal priority is returned is left to the queue.
PopCandidates(queue) ==
    {s \in DOMAIN queue : \A t \in DOMAIN queue : ~MoveCounterGreater(queue[t], queue[s])}

remove(queue, item) == [s \in (DOMAIN queue) \ {item} |-> queue[s]]

\* A winning position replaces the best solution found so far.
Improves(moves_from_start, moves_to_target, found_minimum_) == moves_to_target < found_minimum_

\* The `for` loop over the positions reachable from from_pos, from the k-th on.
RECURSIVE expand_loop(_, _, _, _, _, _, _)
expand_loop(acc, round, mb, from_pos, prio, reachable, k) ==
    IF k > Len(reachable) THEN acc
    ELSE LET pos == reachable[k][1]
             moves_from_start == prio.from_start + 1
             moves_to_target == min_moves(mb, pos, round.target)
             added == add_node(acc.nodes, pos, from_pos, moves_from_start, reachable[k][2])
         IN  IF was_discarded(added.outcome)
             THEN expand_loop(acc, round, mb, from_pos, prio, reachable, k + 1)
             ELSE IF target_reached(round, pos)
             THEN expand_loop(
                    IF Improves(moves_from_start, moves_to_target, acc.found_minimum)
                    THEN [acc EXCEPT !.nodes = added.nodes,
                                     !.found_minimum = moves_from_start,
                                     !.found_final_position = pos]
                    ELSE [acc EXCEPT !.nodes = added.nodes],
                    round, mb, from_pos, prio, reachable, k + 1)
             ELSE expand_loop(
                    [acc EXCEPT !.nodes = added.nodes,
                                !.open_list = push_increase(acc.open_list, pos,
                                                  MoveCounterNew(moves_from_start, moves_to_target))],
                    round, mb, from_pos, prio, reachable, k + 1)

(***************************************************************************)
(* IdaStar                                                                 *)
(***************************************************************************)
\* A variant of Pruned: a position is also ignored when max_depth - 1 moves just suffice.
PrunedIfJustEnough(max_depth, to_target) == max_depth - 1 <= to_target

\* The position is ignored: the target can not be reached within max_depth - 1 moves.
Pruned(max_depth, to_target) == max_depth - 1 < to_target

RECURSIVE depth_limited_dfs(_, _, _, _, _, _)
RECURSIVE dfs_loop(_, _, _, _, _, _, _, _)
\* Depth-limited DFS from start_pos; yields Some(final position) or None, and the node map.
depth_limited_dfs(nodes, round, mb, start_pos, at_move, max_depth) ==
    IF max_depth = 0
    THEN [final |-> IF target_reached(round, start_pos) THEN Some(start_pos) ELSE None,
          nodes |-> nodes]
    ELSE dfs_loop(nodes, round, mb, start_pos, at_move, max_depth,
                  reachable_positions(start_pos, round.board), 1)

\* The `for` loop of depth_limited_dfs from the k-th reachable position on.
dfs_loop(nodes, round, mb, start_pos, at_move, max_depth, reachable, k) ==
    IF k > Len(reachable) THEN [final |-> None, nodes |-> nodes]
    ELSE LET pos == reachable[k][1]
             calculating_move == at_move + 1
         IN  IF Pruned(max_depth, min_moves(mb, pos, round.target))
             THEN dfs_loop(nodes, round, mb, start_pos, at_move, max_depth, reachable, k + 1)
             ELSE LET added == add_node(nodes, pos, start_pos, calculating_move, reachable[k][2])
                  IN  IF was_discarded(added.outcome)
                      THEN dfs_loop(nodes, round, mb, start_pos, at_move, max_depth,
                                    reachable, k + 1)
                      ELSE LET r == depth_limited_dfs(added.nodes, round, mb, pos,
                                                      calculating_move, max_depth - 1)
                           IN  IF r.final # None THEN r
                               ELSE dfs_loop(r.nodes, round, mb, start_pos, at_move,
                                             max_depth, reachable, k + 1)

(***************************************************************************)
(* The rounds and start positions the solvers are called with.             *)
(***************************************************************************)
BoardOpen(side) == wall_enclosure(new_empty(side))

\* The walls of util::tests::walled_move_board.
BoardWalled(side) ==
    set_vertical_line(
        set_horizontal_line(set_horizontal_line(BoardOpen(side), 0, 0, 1), 1, 1, 1),
        1, 1, 1)

\* The walls of util::tests::unsolvable: the field (0, 0) is walled in.
BoardCaged(side) == set_horizontal_line(set_vertical_line(BoardOpen(side), 0, 0, 1), 0, 0, 1)

\* Every row is cut off from the others.
BoardRows(side) ==
    set_horizontal_line(set_horizontal_line(BoardOpen(side), 0, 0, side), 0, 1, side)

\* BoardRows with the fields (0, 0), (1, 0) cut off from (2, 0) and (0, 1) cut off from (1, 1).
BoardCells(side) == set_vertical_line(set_vertical_line(BoardRows(side), 1, 0, 1), 0, 1, 1)

StartA == from_tuples(<<(<<0, 0>>), (<<0, 1>>), (<<2, 1>>), (<<2, 2>>)>>)

StartB == from_tuples(<<(<<2, 0>>), (<<0, 2>>), (<<1, 2>>), (<<0, 1>>)>>)

StartC == from_tuples(<<(<<0, 0>>), (<<0, 1>>), (<<1, 1>>), (<<2, 1>>)>>)

StartD == from_tuples(<<(<<0, 0>>), (<<1, 0>>), (<<0, 1>>), (<<1, 1>>)>>)

StartE == from_tuples(<<(<<0, 0>>), (<<1, 0>>), (<<2, 0>>), (<<0, 1>>)>>)

Instance(board, target, column_, row_, start) ==
    [round |-> RoundNew(board, target, PositionNew(column_, row_)), start_positions |-> start]

\* The start is on the target.
OnTargetInstances ==
    {Instance(BoardOpen(3), "Red", 0, 0, StartA),
     Instance(BoardOpen(3), "Yellow", 1, 1, StartD),
     Instance(BoardOpen(3), "Blue", 1, 0, StartD),
     Instance(BoardOpen(3), "Spiral", 0, 0, StartA)}

\* A winning position is one to four moves away.
SolvableInstances ==
    {Instance(BoardOpen(3), "Red", 0, 0, StartB),
     Instance(BoardOpen(3), "Yellow", 1, 0, StartD),
     Instance(BoardCaged(3), "Yellow", 1, 0, StartD),
     Instance(BoardWalled(3), "Yellow", 1, 0, StartD),
     Instance(BoardOpen(3), "Yellow", 2, 0, StartA),
     Instance(BoardOpen(3), "Yellow", 1, 1, StartC),
     Instance(BoardOpen(3), "Spiral", 1, 0, StartA),
     Instance(BoardOpen(3), "Green", 1, 0, StartA),
     Instance(BoardWalled(3), "Yellow", 0, 0, StartB),
     Instance(BoardWalled(3), "Red", 1, 1, StartA),
     Instance(BoardWalled(3), "Yellow", 2, 0, StartD),
     Instance(BoardWalled(4), "Yellow", 2, 0, StartD)}

\* No winning position can be reached, and the least-moves board tells.
FlaggedInstances ==
    {Instance(BoardRows(3), "Yellow", 0, 0, StartC)}

\* No winning position can be reached, and the least-moves board does not tell.
UnflaggedInstances ==
    {Instance(BoardRows(3), "Red", 1, 0, StartC),
     Instance(BoardRows(3), "Red", 2, 0, StartD),
     Instance(BoardCells(3), "Red", 1, 0, StartE)}

Instances ==
    OnTargetInstances \cup SolvableInstances \cup FlaggedInstances \cup UnflaggedInstances

Solvers == {"BreadthFirst", "AStar", "IdaStar"}

Call(solver, instance) ==
    [solver |-> solver, round |-> instance.round, start_positions |-> instance.start_positions]

\* What a caller does with fresh solvers: one solver on a round, or each of the three in turn.
Plans ==
    {<<Call(s, n)>> : s \in Solvers, n \in Instances}
    \cup {<<Call("BreadthFirst", n), Call("AStar", n), Call("IdaStar", n)>> : n \in Instances}

\* One call of a fresh solver; IdaStar is called where it does not search, or where its
\* search finds no position at all.
FairPlans ==
    {<<Call(s, n)>> : s \in {"BreadthFirst", "AStar"}, n \in Instances}
    \cup {<<Call("IdaStar", n)>> :
             n \in OnTargetInstances \cup FlaggedInstances
                   \cup {Instance(BoardCells(3), "Red", 1, 0, StartE)}}

\* What a caller does that keeps its solver: it solves one instance twice with it.
ReusePlans ==
    {<<Call(s, n), Call(s, n)>> :
        s \in Solvers,
        n \in {Instance(BoardOpen(3), "Red", 0, 0, StartA),
               Instance(BoardOpen(3), "Red", 0, 0, StartB),
               Instance(BoardWalled(3), "Yellow", 1, 0, StartD),
               Instance(BoardOpen(3), "Green", 1, 0, StartA),
               Instance(BoardWalled(3), "Yellow", 0, 0, StartB),
               Instance(BoardWalled(4), "Yellow", 2, 0, StartD)}}

(***************************************************************************)
(* State.                                                                  *)
(***************************************************************************)
VARIABLES
    calls,                  \* the calls of `solve` the caller has yet to make
    pc,                     \* "idle", or the solver whose `solve` is running
    round,                  \* the round of the latest call
    start_positions,        \* the start positions of the latest call
    visited_nodes,          \* the field `visited_nodes` of each solver
    move_board,             \* the field `move_board` of AStar and IdaStar
    current_move_positions, \* BreadthFirst::start
    move_n,                 \* BreadthFirst::start
    open_list,              \* AStar::solve
    found_minimum,          \* AStar::solve
    found_final_position,   \* AStar::solve
    i,                      \* IdaStar::solve
    results,                \* what the calls made so far returned, in order
    game_board,             \* the board the robots are moved on
    robot_positions,        \* the RobotPositions the robots are moved in
    call,                   \* the call of the board's interface that runs or ran last
    temp_pos,               \* RobotPositions::move_in_direction
    loops,                  \* iterations of the `while` loop of move_in_direction so far
    returned,               \* what the last call returned
    environment             \* the RustyEnvironment, once it is built

vars ==
    <<calls, pc, round, start_positions, visited_nodes, move_board,
      current_move_positions, move_n, open_list, found_minimum,
      found_final_position, i, results,
      game_board, robot_positions, call, temp_pos, loops, returned, environment>>

solver_vars ==
    <<calls, pc, round, start_positions, visited_nodes, move_board,
      current_move_positions, move_n, open_list, found_minimum,
      found_final_position, i, results>>

board_vars == <<game_board, robot_positions, call, temp_pos, loops, returned>>

bfs_locals == <<current_move_positions, move_n>>

astar_locals == <<open_list, found_minimum, found_final_position>>

\* No call of the board's interface has been made.
NoCall ==
    [name |-> "none", pc |-> "idle", self |-> <<>>, robot |-> "none", direction |-> "none",
     args |-> <<>>]

\* The locals of a solve that is not running.
NoLocals ==
    /\ current_move_positions' = <<>>
    /\ move_n' = 0
    /\ open_list' = <<>>
    /\ found_minimum' = USIZE_MAX
    /\ found_final_position' = None
    /\ i' = 0

InitWith(plans) ==
    /\ calls \in plans
    /\ pc = "idle"
    /\ round = Head(calls).round
    /\ start_positions = Head(calls).start_positions
    /\ visited_nodes = [s \in Solvers |-> NoNodes]
    /\ move_board = [s \in {"AStar", "IdaStar"} |-> LeastMovesBoardDefault]
    /\ current_move_positions = <<>>
    /\ move_n = 0
    /\ open_list = <<>>
    /\ found_minimum = USIZE_MAX
    /\ found_final_position = None
    /\ i = 0
    /\ results = <<>>
    /\ game_board = Head(calls).round.board
    /\ robot_positions = Head(calls).start_positions
    /\ call = NoCall
    /\ temp_pos = robot_positions.Red
    /\ loops = 0
    /\ returned = None
    /\ environment = None

Init == InitWith(Plans)

\* The caller's side of a call: the arguments are those of the next call of the plan.  A panic
\* unwinds the caller, which then makes no further call.
Enter(solver) ==
    /\ pc = "idle"
    /\ calls # <<>>
    /\ Head(calls).solver = solver
    /\ IF results = <<>> THEN TRUE ELSE ~IsPanic(results[Len(results)].value)
    /\ round' = Head(calls).round
    /\ start_positions' = Head(calls).start_positions
    /\ calls' = Tail(calls)
    /\ UNCHANGED <<board_vars, environment>>

\* `solve` returns (or panics with) r.
Return(solver, r) ==
    /\ results' = Append(results, [solver |-> solver, value |-> r])
    /\ pc' = "idle"
    /\ NoLocals

(***************************************************************************)
(* BreadthFirst::solve                                                     *)
(***************************************************************************)
BreadthFirstSolve ==
    /\ Enter("BreadthFirst")
    /\ IF target_reached(round', start_positions')
       THEN Return("BreadthFirst", PathNew(start_positions', start_positions', <<>>))
       ELSE /\ pc' = "BreadthFirst"
            /\ current_move_positions' = <<start_positions'>>
            /\ move_n' = 0
            /\ UNCHANGED <<astar_locals, i, results>>
    /\ UNCHANGED <<visited_nodes, move_board>>

\* One iteration of `'outer: for move_n in 0..`.
BreadthFirstStep ==
    /\ pc = "BreadthFirst"
    /\ move_n < MaxMoveN
    /\ LET r == bfs_level([reached |-> None, nodes |-> visited_nodes.BreadthFirst,
                           next_positions |-> <<>>],
                          round, current_move_positions, 1, Len(current_move_positions), move_n)
       IN  /\ visited_nodes' = [visited_nodes EXCEPT !.BreadthFirst = r.nodes]
           /\ IF r.reached # None
              THEN Return("BreadthFirst", path_to(r.nodes, r.reached[1]))
              ELSE /\ current_move_positions' = r.next_positions
                   /\ move_n' = move_n + 1
                   /\ UNCHANGED <<pc, results, astar_locals, i>>
    /\ UNCHANGED <<calls, round, start_positions, move_board, board_vars, environment>>

(***************************************************************************)
(* AStar::solve                                                            *)
(***************************************************************************)
UnsolvablePanic ==
    Panic("It's not possible to reach the target starting from this robot configuration")

AStarSolve ==
    /\ Enter("AStar")
    /\ IF target_reached(round', start_positions')
       THEN /\ Return("AStar", new_start_on_target(start_positions'))
            /\ UNCHANGED move_board
       ELSE LET mb == LeastMovesBoardNew(round'.board, round'.target_position)
            IN  /\ move_board' = [move_board EXCEPT !.AStar = mb]
                /\ IF is_unsolvable(mb, start_positions', round'.target)
                   THEN Return("AStar", UnsolvablePanic)
                   ELSE /\ pc' = "AStar"
                        /\ open_list' = push(<<>>, start_positions',
                               MoveCounterNew(0, min_moves(mb, start_positions', round'.target)))
                        /\ found_minimum' = USIZE_MAX
                        /\ found_final_position' = start_positions'
                        /\ UNCHANGED <<bfs_locals, i, results>>
    /\ UNCHANGED visited_nodes

\* One evaluation of `while let Some((from_pos, prio)) = open_list.pop()` and of the loop body.
AStarStep ==
    /\ pc = "AStar"
    /\ IF DOMAIN open_list = {}
       THEN /\ Return("AStar", path_to(visited_nodes.AStar, found_final_position))
            /\ UNCHANGED visited_nodes
       ELSE \E from_pos \in PopCandidates(open_list) :
              LET prio == open_list[from_pos]
              IN  IF prio.total >= found_minimum
                  THEN /\ Return("AStar", path_to(visited_nodes.AStar, found_final_position))
                       /\ UNCHANGED visited_nodes
                  ELSE LET r == expand_loop(
                                  [nodes |-> visited_nodes.AStar,
                                   open_list |-> remove(open_list, from_pos),
                                   found_minimum |-> found_minimum,
                                   found_final_position |-> found_final_position],
                                  round, move_board.AStar, from_pos, prio,
                                  reachable_positions(from_pos, round.board), 1)
                       IN  /\ visited_nodes' = [visited_nodes EXCEPT !.AStar = r.nodes]
                           /\ open_list' = r.open_list
                           /\ found_minimum' = r.found_minimum
                           /\ found_final_position' = r.found_final_position
                           /\ UNCHANGED <<pc, results, bfs_locals, i>>
    /\ UNCHANGED <<calls, round, start_positions, move_board, board_vars, environment>>

(***************************************************************************)
(* IdaStar::solve                                                          *)
(***************************************************************************)
IdaStarSolve ==
    /\ Enter("IdaStar")
    /\ IF target_reached(round', start_positions')
       THEN /\ Return("IdaStar", new_start_on_target(start_positions'))
            /\ UNCHANGED move_board
       ELSE LET mb == LeastMovesBoardNew(round'.board, round'.target_position)
                start == min_moves(mb, start_positions', round'.target)
            IN  /\ move_board' = [move_board EXCEPT !.IdaStar = mb]
                /\ IF is_unsolvable(mb, start_positions', round'.target)
                   THEN Return("IdaStar", UnsolvablePanic)
                   ELSE /\ pc' = "IdaStar"
                        /\ i' = start
                        /\ UNCHANGED <<bfs_locals, astar_locals, results>>
    /\ UNCHANGED visited_nodes

\* One iteration of `for i in start..`.
IdaStarStep ==
    /\ pc = "IdaStar"
    /\ i <= MaxDepth
    /\ LET maybe == depth_limited_dfs(visited_nodes.IdaStar, round, move_board.IdaStar,
                                      start_positions, 0, i)
       IN  IF maybe.final # None
           THEN /\ visited_nodes' = [visited_nodes EXCEPT !.IdaStar = maybe.nodes]
                /\ Return("IdaStar", path_to(maybe.nodes, maybe.final[1]))
           ELSE /\ visited_nodes' = [visited_nodes EXCEPT !.IdaStar = NoNodes]
                /\ i' = i + 1
                /\ UNCHANGED <<pc, results, bfs_locals, astar_locals>>
    /\ UNCHANGED <<calls, round, start_positions, move_board, board_vars, environment>>

Next ==
    \/ BreadthFirstSolve
    \/ BreadthFirstStep
    \/ AStarSolve
    \/ AStarStep
    \/ IdaStarSolve
    \/ IdaStarStep

Spec == Init /\ [][Next]_vars

\* An iteration of IdaStar that can be taken is taken: a running solve goes on.
InitFair == InitWith(FairPlans)

FairSpec == InitFair /\ [][Next]_vars /\ WF_vars(IdaStarStep)

\* The caller keeps its solver for a second solve.
InitReuse == InitWith(ReusePlans)

SpecReuse == InitReuse /\ [][Next]_vars

(***************************************************************************)
(* The interface of the board: the constructors of the data model, the     *)
(* move simulator with its `while` loop taken one iteration at a time, the *)
(* successor enumerator and the win predicate, called by a caller that     *)
(* moves the robots of a game around.  The caller moves robots as long as  *)
(* it likes; looking at the successors or at the win predicate is the last *)
(* thing it does with a game.                                              *)
(***************************************************************************)
\* A variant of Board::new: every wall grid gives a board.
BoardNewUnchecked(walls) == [walls |-> walls]

\* Board::new: panics if `walls` is not square.
BoardNew(walls) ==
    LET board_size == Cardinality(DOMAIN walls)
    IN  IF \E v \in DOMAIN walls : Cardinality(DOMAIN walls[v]) # board_size
        THEN Panic("Tried to create a non-square board.")
        ELSE [walls |-> walls]

\* Wall grids a caller hands to Board::new: none, square ones, and ones that are not square.
WallGrids ==
    {vec(vec(FieldDefault, 0), 0),
     vec(vec(FieldDefault, 1), 1),
     vec(vec(FieldDefault, 2), 2),
     BoardWalled(3).walls,
     vec(vec(FieldDefault, 3), 2),
     vec(vec(FieldDefault, 0), 1),
     (0 :> vec(FieldDefault, 2)) @@ (1 :> vec(FieldDefault, 1))}

\* Side lengths a caller hands to Board::new_empty.
SideLengths == 0..3

\* Coordinates a caller hands to from_tuples and Position::new.
Coordinates == {0, 1, 3, 5}

\* Tuples a caller hands to from_tuples.
Tuples ==
    {<<(<<0, 0>>), (<<0, 1>>), (<<2, 1>>), (<<2, 2>>)>>,
     <<(<<1, 1>>), (<<1, 1>>), (<<0, 1>>), (<<2, 0>>)>>,
     <<(<<0, 0>>), (<<0, 0>>), (<<0, 0>>), (<<0, 0>>)>>,
     <<(<<5, 0>>), (<<0, 1>>), (<<1, 1>>), (<<2, 1>>)>>,
     <<(<<0, 0>>), (<<0, 1>>), (<<1, 3>>), (<<1, 3>>)>>}

Game(board, start) == [board |-> board, positions |-> start]

\* An enclosed board whose first row is cut off from the other rows.
BoardSplit(side) ==
    set_vertical_line(set_horizontal_line(BoardOpen(side), 0, 0, side), 0, 1, 1)

\* An enclosed board whose first column is cut off from the other columns.
BoardAisle(side) ==
    set_horizontal_line(set_vertical_line(BoardOpen(side), 0, 0, side), 1, 0, 1)

\* An enclosed board whose first two rows are cut off from each other and from the rest.
BoardStrips(side) ==
    set_vertical_line(
        set_horizontal_line(set_horizontal_line(BoardOpen(side), 0, 0, side), 0, 1, side),
        1, 2, 1)

\* A board without outer walls where no robot leaves its row (BoardLanes) or its column
\* (BoardShafts) and every row or column is a ring.
BoardLanes(side) ==
    set_horizontal_line(
        set_horizontal_line(set_horizontal_line(new_empty(side), 0, 0, side), 0, 1, side),
        0, 2, side)

BoardShafts(side) ==
    set_vertical_line(
        set_vertical_line(set_vertical_line(new_empty(side), 0, 0, side), 1, 0, side),
        2, 0, side)

\* The games of a caller on a board with the outer walls, the robots on distinct fields.
EnclosedGames ==
    {Game(BoardSplit(3), from_tuples(<<(<<0, 0>>), (<<2, 0>>), (<<0, 1>>), (<<2, 2>>)>>)),
     Game(BoardAisle(3), from_tuples(<<(<<0, 0>>), (<<0, 2>>), (<<1, 0>>), (<<2, 2>>)>>)),
     Game(BoardStrips(4), from_tuples(<<(<<0, 0>>), (<<2, 0>>), (<<1, 1>>), (<<0, 3>>)>>)),
     Game(BoardWalled(3), StartB),
     Game(BoardRows(3), StartC),
     Game(BoardCells(3), StartE),
     Game(BoardCaged(2), from_tuples(<<(<<0, 0>>), (<<1, 0>>), (<<0, 1>>), (<<1, 1>>)>>))}

\* Games on a board without the outer walls, and games with robots that share a field.
OtherGames ==
    {Game(BoardLanes(3), from_tuples(<<(<<0, 0>>), (<<1, 1>>), (<<2, 1>>), (<<1, 2>>)>>)),
     Game(BoardShafts(3), from_tuples(<<(<<0, 0>>), (<<0, 0>>), (<<1, 1>>), (<<2, 1>>)>>)),
     Game(new_empty(2), from_tuples(<<(<<0, 0>>), (<<0, 0>>), (<<1, 1>>), (<<1, 0>>)>>)),
     Game(new_empty(1), from_tuples(<<(<<0, 0>>), (<<0, 0>>), (<<0, 0>>), (<<0, 0>>)>>)),
     Game(BoardRows(3), from_tuples(<<(<<1, 1>>), (<<1, 1>>), (<<0, 0>>), (<<2, 0>>)>>))}

Games == EnclosedGames \cup OtherGames

\* A call of the interface with its arguments; pc tells whether it has returned.
CallOf(name, self, robot, direction, args, pc_) ==
    [name |-> name, pc |-> pc_, self |-> self, robot |-> robot, direction |-> direction,
     args |-> args]

InitBoard ==
    /\ \E g \in Games : game_board = g.board /\ robot_positions = g.positions
    /\ call = NoCall
    /\ temp_pos = robot_positions.Red
    /\ loops = 0
    /\ returned = None
    /\ environment = None
    /\ calls = <<>>
    /\ pc = "idle"
    /\ round = RoundNew(game_board, "Spiral", PositionNew(0, 0))
    /\ start_positions = robot_positions
    /\ visited_nodes = [s \in Solvers |-> NoNodes]
    /\ move_board = [s \in {"AStar", "IdaStar"} |-> LeastMovesBoardDefault]
    /\ current_move_positions = <<>>
    /\ move_n = 0
    /\ open_list = <<>>
    /\ found_minimum = USIZE_MAX
    /\ found_final_position = None
    /\ i = 0
    /\ results = <<>>

\* A call that returns at once.
Returns(name, args, r) ==
    /\ call' = CallOf(name, robot_positions, "none", "none", args, "returned")
    /\ returned' = r
    /\ UNCHANGED <<game_board, robot_positions, temp_pos, loops, solver_vars, environment>>

\* The caller builds a Board from a wall grid.
BoardNewCall ==
    /\ call.pc = "idle"
    /\ \E walls \in WallGrids : Returns("Board::new", <<walls>>, BoardNew(walls))

\* The caller builds an empty Board.
NewEmptyCall ==
    /\ call.pc = "idle"
    /\ \E side \in SideLengths : Returns("Board::new_empty", <<side>>, new_empty(side))

\* The caller builds RobotPositions.
FromTuplesCall ==
    /\ call.pc = "idle"
    /\ \E t \in Tuples : Returns("RobotPositions::from_tuples", <<t>>, from_tuples(t))

\* The caller builds a Round on the board of the game.
RoundNewCall ==
    /\ call.pc = "idle"
    /\ \E target \in Target, c \in Coordinates, r \in Coordinates :
          Returns("Round::new", <<target, c, r>>,
                  RoundNew(game_board, target, PositionNew(c, r)))

\* The caller goes on with the game: it has made no call yet or has moved a robot.
Playing == call.name \in {"none", "move_in_direction"} /\ call.pc # "loop"

\* RobotPositions::move_in_direction up to its loop.
MoveInDirectionCall ==
    /\ Playing
    /\ \E robot \in Robot, direction \in Direction :
          /\ call' = CallOf("move_in_direction", robot_positions, robot, direction, <<>>, "loop")
          /\ temp_pos' = robot_positions[robot]
    /\ loops' = 0
    /\ returned' = None
    /\ UNCHANGED <<game_board, robot_positions, solver_vars, environment>>

\* A variant of MoveInDirectionLoop: the body of the loop runs once before the condition is
\* looked at.
MoveInDirectionDoWhile ==
    /\ call.pc = "loop"
    /\ IF loops = 0 \/ adjacent_reachable(call.self, game_board, temp_pos, call.direction)
       THEN /\ loops < MaxLoops
            /\ temp_pos' = to_direction(temp_pos, call.direction, side_length(game_board))
            /\ loops' = loops + 1
            /\ UNCHANGED <<robot_positions, call, returned>>
       ELSE /\ robot_positions' = set_robot(call.self, call.robot, temp_pos)
            /\ returned' = robot_positions'
            /\ call' = [call EXCEPT !.pc = "returned"]
            /\ UNCHANGED <<temp_pos, loops>>
    /\ UNCHANGED <<game_board, solver_vars, environment>>

\* A variant of MoveInDirectionLoop: the condition of the loop looks at the walls only.
MoveInDirectionWallsOnly ==
    /\ call.pc = "loop"
    /\ IF ~is_adjacent_to_wall(game_board, temp_pos, call.direction)
       THEN /\ loops < MaxLoops
            /\ temp_pos' = to_direction(temp_pos, call.direction, side_length(game_board))
            /\ loops' = loops + 1
            /\ UNCHANGED <<robot_positions, call, returned>>
       ELSE /\ robot_positions' = set_robot(call.self, call.robot, temp_pos)
            /\ returned' = robot_positions'
            /\ call' = [call EXCEPT !.pc = "returned"]
            /\ UNCHANGED <<temp_pos, loops>>
    /\ UNCHANGED <<game_board, solver_vars, environment>>

\* One evaluation of the condition of the `while` loop of move_in_direction, and then either
\* the body of the loop or what follows the loop.
MoveInDirectionLoop ==
    /\ call.pc = "loop"
    /\ IF adjacent_reachable(call.self, game_board, temp_pos, call.direction)
       THEN /\ loops < MaxLoops
            /\ temp_pos' = to_direction(temp_pos, call.direction, side_length(game_board))
            /\ loops' = loops + 1
            /\ UNCHANGED <<robot_positions, call, returned>>
       ELSE /\ robot_positions' = set_robot(call.self, call.robot, temp_pos)
            /\ returned' = robot_positions'
            /\ call' = [call EXCEPT !.pc = "returned"]
            /\ UNCHANGED <<temp_pos, loops>>
    /\ UNCHANGED <<game_board, solver_vars, environment>>

\* RobotPositions::reachable_positions, collected.
ReachablePositionsCall ==
    /\ Playing
    /\ Returns("reachable_positions", <<>>, reachable_positions(robot_positions, game_board))

\* Round::target_reached of a round on the board of the game.
TargetReachedCall ==
    /\ Playing
    /\ \E target \in Target, p \in {robot_positions[r] : r \in Robot} \cup {PositionNew(0, 0)} :
          Returns("target_reached", <<target, p>>,
                  target_reached(RoundNew(game_board, target, p), robot_positions))

NextBoard ==
    \/ BoardNewCall
    \/ NewEmptyCall
    \/ FromTuplesCall
    \/ RoundNewCall
    \/ MoveInDirectionCall
    \/ MoveInDirectionLoop
    \/ ReachablePositionsCall
    \/ TargetReachedCall

SpecBoard == InitBoard /\ [][NextBoard]_vars

(***************************************************************************)
(* The least-moves board: a caller builds it for the round of a game and   *)
(* asks it for the lower bound of the moves or whether the round is sure   *)
(* to be unsolvable.                                                       *)
(***************************************************************************)
\* The walls of util::tests::max_moves.
BoardMaxMoves(side) == set_vertical_line(BoardOpen(side), 0, 0, 1)

\* The four robots on one field, as in util::tests::max_moves and util::tests::unsolvable.
StartStacked == from_tuples(<<(<<0, 0>>), (<<0, 0>>), (<<0, 0>>), (<<0, 0>>)>>)

\* The fields of a board.
Fields(board) ==
    {PositionNew(c, r) : c \in 0..(side_length(board) - 1), r \in 0..(side_length(board) - 1)}

\* The games a least-moves board is built for: the boards have the outer walls.
HeuristicGames ==
    EnclosedGames
    \cup {Game(BoardMaxMoves(2), StartStacked),
          Game(BoardCaged(2), StartStacked),
          Game(BoardOpen(2), StartD),
          Game(BoardRows(3), from_tuples(<<(<<1, 1>>), (<<1, 1>>), (<<0, 0>>), (<<2, 0>>)>>))}

\* A game and a round on its board; no call has been made.
InitHeuristic ==
    /\ \E g \in HeuristicGames : game_board = g.board /\ robot_positions = g.positions
    /\ \E target \in Target, target_position \in Fields(game_board) :
          round = RoundNew(game_board, target, target_position)
    /\ call = NoCall
    /\ temp_pos = robot_positions.Red
    /\ loops = 0
    /\ returned = None
    /\ environment = None
    /\ calls = <<>>
    /\ pc = "idle"
    /\ start_positions = robot_positions
    /\ visited_nodes = [s \in Solvers |-> NoNodes]
    /\ move_board = [s \in {"AStar", "IdaStar"} |-> LeastMovesBoardDefault]
    /\ current_move_positions = <<>>
    /\ move_n = 0
    /\ open_list = <<>>
    /\ found_minimum = USIZE_MAX
    /\ found_final_position = None
    /\ i = 0
    /\ results = <<>>

\* A call on the receiver `self` that returns at once.
ReturnsOn(name, self, args, r) ==
    /\ call' = CallOf(name, self, "none", "none", args, "returned")
    /\ returned' = r
    /\ UNCHANGED <<game_board, robot_positions, temp_pos, loops, solver_vars, environment>>

\* LeastMovesBoard::new for the round.
LeastMovesBoardNewCall ==
    /\ call.name = "none"
    /\ ReturnsOn("LeastMovesBoard::new", <<>>, <<round.board, round.target_position>>,
                 LeastMovesBoardNew(round.board, round.target_position))

\* LeastMovesBoard::min_moves on the board built last.
MinMovesCall ==
    /\ call.name = "LeastMovesBoard::new"
    /\ ReturnsOn("min_moves", returned, <<robot_positions, round.target>>,
                 min_moves(returned, robot_positions, round.target))

\* LeastMovesBoard::is_unsolvable on the board built last.
IsUnsolvableCall ==
    /\ call.name = "LeastMovesBoard::new"
    /\ ReturnsOn("is_unsolvable", returned, <<robot_positions, round.target>>,
                 is_unsolvable(returned, robot_positions, round.target))

NextHeuristic ==
    \/ LeastMovesBoardNewCall
    \/ MinMovesCall
    \/ IsUnsolvableCall

SpecHeuristic == InitHeuristic /\ [][NextHeuristic]_vars

(***************************************************************************)
(* The data model called on its own: a caller of a game packs positions,   *)
(* encloses boards, asks for the walls next to the fields of its board and *)
(* for the sorted array of its robots.                                     *)
(***************************************************************************)
\* Coordinates a caller packs into a Position: up to the greatest of a board of side 256.
PackedCoordinates == {0, 1, 2, 15, 16, 127, 128, 255}

\* Boards a caller encloses: empty ones and ones with walls inside and on the edge.
BoardsToEnclose ==
    {new_empty(1), new_empty(2), new_empty(3), new_empty(4),
     set_vertical_line(new_empty(3), 1, 0, 2),
     set_horizontal_line(set_vertical_line(new_empty(3), 2, 1, 1), 0, 0, 2),
     BoardLanes(3)}

\* Position::new, with column() and row() of the new position.
PositionNewCall ==
    /\ call.pc = "idle"
    /\ \E c \in PackedCoordinates, r \in PackedCoordinates :
          LET p == PositionNew(c, r)
          IN  ReturnsOn("Position::new", <<>>, <<c, r>>,
                        [position |-> p, column |-> column(p), row |-> row(p)])

\* Board::wall_enclosure
WallEnclosureCall ==
    /\ call.pc = "idle"
    /\ \E board \in BoardsToEnclose :
          ReturnsOn("wall_enclosure", board, <<>>, wall_enclosure(board))

\* Board::is_adjacent_to_wall on the board of the game.
IsAdjacentToWallCall ==
    /\ call.pc = "idle"
    /\ \E pos \in Fields(game_board), direction \in Direction :
          ReturnsOn("is_adjacent_to_wall", game_board, <<pos, direction>>,
                    is_adjacent_to_wall(game_board, pos, direction))

\* RobotPositions::to_sorted_array of the robots of the game.
ToSortedArrayCall ==
    /\ call.pc = "idle"
    /\ \E main_robot \in Robot :
          ReturnsOn("to_sorted_array", robot_positions, <<main_robot>>,
                    to_sorted_array(robot_positions, main_robot))

NextData ==
    \/ PositionNewCall
    \/ WallEnclosureCall
    \/ IsAdjacentToWallCall
    \/ ToSortedArrayCall

SpecData == InitBoard /\ [][NextData]_vars

(***************************************************************************)
(* The table of visited nodes called on its own: a caller adds nodes to    *)
(* the table of a solver and clears it, in any order.                      *)
(***************************************************************************)
\* The positions the nodes are added at.
Keys == {StartA, StartB}

\* The positions the nodes are reached from.
Sources == {StartA, StartB, StartC}

\* The movements the nodes are reached with.
Movements == {<<"Red", "Up">>, <<"Blue", "Left">>}

\* The table is empty; the board plays no part.
InitVisited == InitBoard /\ side_length(game_board) = 1

\* VisitedNodes::add_node with BasicVisitedNode::new as create_node.
AddNodeCall ==
    \E positions \in Keys, from \in Sources, moves \in 1..MaxCost, moved \in Movements :
        LET added == add_node(visited_nodes.BreadthFirst, positions, from, moves, moved)
        IN  /\ visited_nodes' = [visited_nodes EXCEPT !.BreadthFirst = added.nodes]
            /\ call' = CallOf("add_node", visited_nodes.BreadthFirst, "none", "none",
                              <<positions, from, moves, moved>>, "returned")
            /\ returned' = added.outcome
            /\ UNCHANGED <<game_board, robot_positions, temp_pos, loops, calls, pc, round,
                           start_positions, move_board, current_move_positions, move_n,
                           open_list, found_minimum, found_final_position, i, results, environment>>

\* VisitedNodes::clear
ClearCall ==
    /\ visited_nodes.BreadthFirst # NoNodes
    /\ visited_nodes' = [visited_nodes EXCEPT !.BreadthFirst = NoNodes]
    /\ call' = CallOf("clear", visited_nodes.BreadthFirst, "none", "none", <<>>, "returned")
    /\ returned' = None
    /\ UNCHANGED <<game_board, robot_positions, temp_pos, loops, calls, pc, round,
                   start_positions, move_board, current_move_positions, move_n,
                   open_list, found_minimum, found_final_position, i, results, environment>>

NextVisited ==
    \/ AddNodeCall
    \/ ClearCall

SpecVisited == InitVisited /\ [][NextVisited]_vars

(***************************************************************************)
(* path_to on the tables a caller builds with add_node and clear.  A table *)
(* built this way may lead path_to around in a circle; the caller asks for *)
(* a path only where the loop of path_to ends within MaxPath iterations.   *)
(***************************************************************************)
\* The `loop` of path_to from current_pos ends, with a `break` or with the panic of `expect`,
\* within `iterations` iterations.
RECURSIVE PathLoopEnds(_, _, _)
PathLoopEnds(nodes, current_pos, iterations) ==
    IF iterations = 0 THEN FALSE
    ELSE IF current_pos \notin DOMAIN nodes THEN TRUE
    ELSE IF nodes[current_pos].moves_to_reach = 1 THEN TRUE
    ELSE PathLoopEnds(nodes, nodes[current_pos].previous_position, iterations - 1)

\* VisitedNodes::path_to
PathToCall ==
    \E positions \in Sources :
        /\ PathLoopEnds(visited_nodes.BreadthFirst, positions, MaxPath)
        /\ ReturnsOn("path_to", visited_nodes.BreadthFirst, <<positions>>,
                     path_to(visited_nodes.BreadthFirst, positions))

NextPath ==
    \/ AddNodeCall
    \/ ClearCall
    \/ PathToCall

SpecPath == InitVisited /\ [][NextPath]_vars

(***************************************************************************)
(* What the claims are measured against.                                   *)
(***************************************************************************)
\* The positions one slide of one robot leads to from a position of `from`.
Slides(board, from) ==
    {move_in_direction(s, board, r, d) : s \in from, r \in Robot, d \in Direction}

\* The least k such that k slides lead from `frontier` (k_ slides from the start) to a
\* position that wins, or -1 if none does; `seen` are the positions reached so far.
RECURSIVE SlidesFrom(_, _, _, _)
SlidesFrom(round_, seen, frontier, k_) ==
    IF \E s \in frontier : target_reached(round_, s) THEN k_
    ELSE LET next == Slides(round_.board, frontier) \ seen
         IN  IF next = {} THEN -1
             ELSE SlidesFrom(round_, seen \cup next, next, k_ + 1)

\* The minimum number of slides from the start of each instance to a winning position.
MinSlidesTable ==
    [n \in Instances |->
        SlidesFrom(n.round, {n.start_positions}, {n.start_positions}, 0)]

\* The minimum number of slides of the instance of the latest call (-1: no position wins).
MinSlides == MinSlidesTable[[round |-> round, start_positions |-> start_positions]]

\* min_moves of the start positions of each instance on the least-moves board of its round.
MinMovesTable ==
    [n \in Instances |->
        min_moves(LeastMovesBoardNew(n.round.board, n.round.target_position),
                  n.start_positions, n.round.target)]

MinMoves == MinMovesTable[[round |-> round, start_positions |-> start_positions]]

\* The least-moves board flags the instance of the latest call: min_moves >= side * side.
Flagged == MinMoves >= side_length(round.board) * side_length(round.board)

\* The value the latest return handed to the caller.
LastResult(rs) == rs[Len(rs)].value

\* What the calls of `solver` made so far returned.
ResultsOf(solver) ==
    {results[k].value : k \in {j \in DOMAIN results : results[j].solver = solver}}

\* The position `movements` lead to from `from`, one move_in_direction per movement.
RECURSIVE Replay(_, _, _)
Replay(board, from, movements) ==
    IF movements = <<>> THEN from
    ELSE Replay(board, move_in_direction(from, board, movements[1][1], movements[1][2]),
                Tail(movements))

(***************************************************************************)
(* Claims.                                                                 *)
(***************************************************************************)
\* C1: on an instance from which a winning position can be reached, a fresh BreadthFirst
\* returns a Path whose number of movements is the minimum number of slides; while it
\* searches it has not yet passed that number, so it returns no later than there.
C1_BreadthFirstShortest ==
    MinSlides >= 0 =>
        /\ \A r \in ResultsOf("BreadthFirst") : IsPath(r) /\ len(r) = MinSlides
        /\ pc = "BreadthFirst" => move_n < MinSlides

\* BreadthFirst has returned a Path of four movements, the minimum of its instance.
C1_Witness ==
    /\ MinSlides = 4
    /\ \E r \in ResultsOf("BreadthFirst") : IsPath(r) /\ len(r) = 4

\* C2: whenever BreadthFirst returned a Path, what a fresh AStar and a fresh IdaStar return
\* for the same instance is a Path with as many movements.
C2_SameLengthAsBreadthFirst ==
    \A b \in ResultsOf("BreadthFirst") :
        IsPath(b) =>
            \A r \in ResultsOf("AStar") \cup ResultsOf("IdaStar") :
                IsPath(r) /\ len(r) = len(b)

\* All three solvers have returned a Path of three movements for one instance.
C2_Witness ==
    /\ Len(results) = 3
    /\ \A k \in 1..3 : IsPath(results[k].value) /\ len(results[k].value) = 3

\* C3: on an instance from which a winning position can be reached, every returned Path
\* starts at the start positions of the call, its movements lead from there to its end_pos,
\* and its end_pos wins.
C3_PathReplays ==
    MinSlides >= 0 =>
        \A k \in DOMAIN results :
            LET r == results[k].value
            IN  IsPath(r) =>
                    /\ r.start_pos = start_positions
                    /\ Replay(round.board, r.start_pos, r.movements) = r.end_pos
                    /\ target_reached(round, r.end_pos)

\* Each solver has returned a Path of at least two movements.
C3_Witness ==
    /\ Len(results) = 3
    /\ \A k \in 1..3 : IsPath(results[k].value) /\ len(results[k].value) >= 2
    /\ {results[k].solver : k \in 1..3} = Solvers

\* C4: when the start positions already win, every solve returns the Path without
\* movements from the start to the start, and no solver explores anything: no search is
\* ever running, and no visited node and no least-moves board is ever stored.
C4_StartOnTarget ==
    target_reached(round, start_positions) =>
        /\ \A k \in DOMAIN results :
               results[k].value = PathNew(start_positions, start_positions, <<>>)
        /\ pc = "idle"
        /\ \A s \in Solvers : visited_nodes[s] = NoNodes
        /\ \A s \in DOMAIN move_board : move_board[s] = LeastMovesBoardDefault
        /\ open_list = <<>> /\ current_move_positions = <<>>

\* The three solvers have returned for start positions that are on the target.
C4_Witness ==
    /\ target_reached(round, start_positions)
    /\ Len(results) = 3
    /\ {results[k].solver : k \in 1..3} = Solvers

\* C5: on an instance without a reachable winning position that the least-moves board does
\* not flag, every AStar solve ends in a panic; it returns no Path.
C5_AStarErrsWithoutWin ==
    (MinSlides < 0 /\ ~Flagged) => \A r \in ResultsOf("AStar") : IsPanic(r)

\* AStar has returned a Path that ends where it starts, on a position that does not win.
C5_Witness ==
    /\ MinSlides < 0 /\ ~Flagged
    /\ \E r \in ResultsOf("AStar") :
           IsPath(r) /\ r.end_pos = start_positions /\ ~target_reached(round, r.end_pos)

\* C6: once the frontier of BreadthFirst is empty and no winning position was found, the
\* solve ends with a failure: its next step does not go on to a further move number.
C6_EmptyFrontierEndsSolve ==
    [][(pc = "BreadthFirst" /\ current_move_positions = <<>>) =>
          (pc' = "idle" /\ IsPanic(LastResult(results')))]_vars

\* BreadthFirst went on for three more move numbers with an empty frontier.
C6_Witness ==
    /\ pc = "BreadthFirst"
    /\ current_move_positions = <<>>
    /\ visited_nodes.BreadthFirst = NoNodes
    /\ move_n > 3

C8_IdaStarReturnsAtMinimum ==
    [][(pc = "IdaStar" /\ MinSlides >= 1) =>
          /\ MinMoves <= i /\ i <= MinSlides
          /\ i < MinSlides => (pc' = "IdaStar" /\ i' = i + 1 /\ results' = results)
          /\ i = MinSlides => (pc' = "idle" /\ IsPath(LastResult(results'))
                               /\ len(LastResult(results')) = MinSlides)]_vars

\* IdaStar has returned a Path of four movements after it started with the depth bound two.
C8_Witness ==
    /\ MinSlides = 4 /\ MinMoves = 2
    /\ \E r \in ResultsOf("IdaStar") : IsPath(r) /\ len(r) = 4

\* C9: when the start does not win and the least-moves board flags the instance, AStar and
\* IdaStar panic before they expand a position: their search never runs, they store no
\* visited node, and what they hand back is the panic about the unsolvable configuration.
C9_FlaggedFailsBeforeExpanding ==
    (~target_reached(round, start_positions) /\ Flagged) =>
        /\ pc \notin {"AStar", "IdaStar"}
        /\ visited_nodes.AStar = NoNodes /\ visited_nodes.IdaStar = NoNodes
        /\ \A r \in ResultsOf("AStar") \cup ResultsOf("IdaStar") : r = UnsolvablePanic

\* A solve of AStar or IdaStar on a flagged instance has ended in the panic.
C9_Witness ==
    /\ ~target_reached(round, start_positions) /\ Flagged
    /\ \E r \in ResultsOf("AStar") \cup ResultsOf("IdaStar") : r = UnsolvablePanic

\* C10: when a solver is used for a second solve, its search begins without a visited node,
\* and the second solve of an instance ends as the first one did: with a Path of as many
\* movements, or with a panic.
C10_SecondSolveAsFresh ==
    [][/\ (pc = "idle" /\ pc' # "idle") => visited_nodes'[pc'] = NoNodes
       /\ Len(results') = 2 =>
              /\ IsPath(results'[2].value) = IsPath(results'[1].value)
              /\ IsPath(results'[1].value) =>
                     len(results'[2].value) = len(results'[1].value)]_vars

\* The second solve of an instance has returned a Path with more movements than the first.
C10_Witness ==
    /\ Len(results) = 2
    /\ IsPath(results[1].value) /\ IsPath(results[2].value)
    /\ len(results[2].value) > len(results[1].value)

(***************************************************************************)
(* The board and the robots as the claims speak of them: fields by their   *)
(* column and row, walls between neighbouring fields.                      *)
(***************************************************************************)
\* The calls of the constructors of the data model.
Constructors == {"Board::new", "Board::new_empty", "RobotPositions::from_tuples", "Round::new"}

\* A constructor has returned.
Constructed == call.name \in Constructors /\ call.pc = "returned"

\* The wall grid has a column whose length is not the number of columns.
NotSquare(walls) ==
    \E c \in DOMAIN walls : Cardinality(DOMAIN walls[c]) # Cardinality(DOMAIN walls)

\* The input of the constructor that returned is malformed: robots on one field or off the
\* board of the game, a board without fields, a target off the board of the game.
Malformed ==
    LET side == side_length(game_board)
    IN  CASE call.name = "RobotPositions::from_tuples" ->
                LET t == call.args[1]
                IN  \/ \E j, k \in 1..4 : j # k /\ t[j] = t[k]
                    \/ \E j \in 1..4 : t[j][1] >= side \/ t[j][2] >= side
          [] call.name = "Board::new" -> call.args[1] = <<>>
          [] call.name = "Board::new_empty" -> call.args[1] = 0
          [] call.name = "Round::new" -> call.args[2] >= side \/ call.args[3] >= side

\* C11 (as stated): a constructor of the data model that is handed malformed input ends in
\* an error; it does not return a value.
C11_MalformedRejected == (Constructed /\ Malformed) => IsPanic(returned)

\* C11 (amended): of the constructors only Board::new rejects input, and only a wall grid
\* that is not square; every other input, malformed or not, is made into the value asked for:
\* the board has the walls or the side length given, the robots are where the tuples say
\* and the round holds the board, the target and the target position given.
C11_OnlyNonSquareRejected ==
    Constructed =>
        /\ IsPanic(returned) <=> (call.name = "Board::new" /\ NotSquare(call.args[1]))
        /\ (call.name = "Board::new" /\ ~NotSquare(call.args[1])) =>
               returned.walls = call.args[1]
        /\ call.name = "Board::new_empty" =>
               /\ side_length(returned) = call.args[1]
               /\ \A c \in DOMAIN returned.walls :
                      /\ Cardinality(DOMAIN returned.walls[c]) = call.args[1]
                      /\ \A r \in DOMAIN returned.walls[c] :
                             ~returned.walls[c][r].right /\ ~returned.walls[c][r].down
        /\ call.name = "RobotPositions::from_tuples" =>
               \A k \in 1..4 :
                  /\ column(returned[ROBOTS[k]]) = call.args[1][k][1]
                  /\ row(returned[ROBOTS[k]]) = call.args[1][k][2]
        /\ call.name = "Round::new" =>
               /\ returned.board = game_board
               /\ returned.target = call.args[1]
               /\ column(returned.target_position) = call.args[2]
               /\ row(returned.target_position) = call.args[3]

\* Board::new has ended in a panic.
C11_Witness == Constructed /\ call.name = "Board::new" /\ IsPanic(returned)

\* The board has the outer walls: by the wraparound of the wall lookup the right walls of the
\* last column and the bottom walls of the last row close all four edges.
Enclosed(b) ==
    LET n == side_length(b)
    IN  /\ n >= 1
        /\ \A k \in 0..(n - 1) : b.walls[n - 1][k].right /\ b.walls[k][n - 1].down

\* The four robots are on four fields.
Distinct(s) == Cardinality({s[q] : q \in Robot}) = 4

\* Every robot is on a field of the board.
InBounds(b, s) ==
    \A q \in Robot : column(s[q]) < side_length(b) /\ row(s[q]) < side_length(b)

\* The step of a direction in columns and in rows.
Dx(d) == CASE d = "Right" -> 1 [] d = "Left" -> -1 [] OTHER -> 0

Dy(d) == CASE d = "Down" -> 1 [] d = "Up" -> -1 [] OTHER -> 0

\* A wall separates the field (c, r) from its neighbour in direction d; the edge of the
\* board counts as a wall.
Separated(b, c, r, d) ==
    LET n == side_length(b)
    IN  IF c + Dx(d) \notin 0..(n - 1) \/ r + Dy(d) \notin 0..(n - 1) THEN TRUE
        ELSE CASE d = "Right" -> b.walls[c][r].right
               [] d = "Left" -> b.walls[c - 1][r].right
               [] d = "Down" -> b.walls[c][r].down
               [] d = "Up" -> b.walls[c][r - 1].down

\* A robot of s stands on the field (c, r).
Occupied(s, c, r) == \E q \in Robot : column(s[q]) = c /\ row(s[q]) = r

\* The robot on (c, r) cannot leave its field in direction d.
Blocked(b, s, c, r, d) == Separated(b, c, r, d) \/ Occupied(s, c + Dx(d), r + Dy(d))

\* The last field of the longest run of fields from (c, r) in direction d that no wall
\* interrupts and that holds no robot beyond its first field.
RECURSIVE RunEnd(_, _, _, _, _)
RunEnd(b, s, c, r, d) ==
    IF Blocked(b, s, c, r, d) THEN <<c, r>> ELSE RunEnd(b, s, c + Dx(d), r + Dy(d), d)

\* move_in_direction has returned.
Moved == call.name = "move_in_direction" /\ call.pc = "returned"

\* The field of a position as <<column, row>>.
Cell(p) == <<column(p), row(p)>>

\* C13: on an enclosed board with the robots on distinct fields, move_in_direction puts the
\* robot on the last field of the longest run from its field in the direction that no wall
\* interrupts and that holds no robot beyond its first field; the loop taken step by step
\* and the function applied as a whole agree on it.
C13_MoveEndsRun ==
    (Moved /\ Enclosed(game_board) /\ Distinct(call.self)) =>
        LET from == call.self[call.robot]
            end == RunEnd(game_board, call.self, column(from), row(from), call.direction)
        IN  /\ Cell(returned[call.robot]) = end
            /\ Cell(move_in_direction(call.self, game_board, call.robot,
                                      call.direction)[call.robot]) = end

\* A robot has slid over two fields and was stopped by another robot, not by a wall.
C13_Witness ==
    /\ Moved /\ Enclosed(game_board) /\ Distinct(call.self)
    /\ loops = 2
    /\ LET at == returned[call.robot]
       IN  /\ ~Separated(game_board, column(at), row(at), call.direction)
           /\ Occupied(call.self, column(at) + Dx(call.direction), row(at) + Dy(call.direction))

\* C14: on an enclosed board with the robots on distinct fields, move_in_direction returns
\* the positions it was given exactly when the robot is blocked at once: a wall is next to
\* its field in the direction, or another robot stands on the neighbouring field.
C14_UnmovedIffBlocked ==
    (Moved /\ Enclosed(game_board) /\ Distinct(call.self)) =>
        LET from == call.self[call.robot]
        IN  (returned = call.self) <=>
                Blocked(game_board, call.self, column(from), row(from), call.direction)

\* A move has returned the positions it was given because another robot is next to the
\* robot, with no wall between them.
C14_Witness ==
    /\ Moved /\ Enclosed(game_board) /\ Distinct(call.self)
    /\ returned = call.self
    /\ LET from == call.self[call.robot]
       IN  /\ ~Separated(game_board, column(from), row(from), call.direction)
           /\ Occupied(call.self, column(from) + Dx(call.direction),
                       row(from) + Dy(call.direction))

\* The place of a move in the order robots Red, Blue, Green, Yellow (outer) by directions
\* Up, Down, Right, Left (inner).
IndexIn(seq, x) == CHOOSE k \in DOMAIN seq : seq[k] = x

Rank(movement) == 4 * (IndexIn(ROBOTS, movement[1]) - 1) + IndexIn(DIRECTIONS, movement[2])

\* reachable_positions has returned.
Enumerated == call.name = "reachable_positions" /\ call.pc = "returned"

\* C15: reachable_positions yields the pairs (move_in_direction(state, r, d), (r, d)) whose
\* positions differ from the state: every such pair once, no other pair, at most 16, in the
\* order robots Red, Blue, Green, Yellow by directions Up, Down, Right, Left.
C15_SuccessorsInOrder ==
    Enumerated =>
        /\ Len(returned) <= 16
        /\ \A k \in DOMAIN returned :
              /\ returned[k][2] \in Robot \X Direction
              /\ returned[k][1] = move_in_direction(call.self, game_board,
                                                    returned[k][2][1], returned[k][2][2])
              /\ returned[k][1] # call.self
        /\ \A r \in Robot, d \in Direction :
              move_in_direction(call.self, game_board, r, d) # call.self =>
                  Cardinality({k \in DOMAIN returned : returned[k][2] = <<r, d>>}) = 1
        /\ \A j, k \in DOMAIN returned :
              j < k => Rank(returned[j][2]) < Rank(returned[k][2])

\* The successors of a state hold two moves of one robot and moves of two more robots, but
\* not all sixteen moves.
C15_Witness ==
    /\ Enumerated
    /\ Len(returned) < 16
    /\ Cardinality({returned[k][2][1] : k \in DOMAIN returned}) >= 3
    /\ \E j, k \in DOMAIN returned : j # k /\ returned[j][2][1] = returned[k][2][1]

\* C16: move_in_direction leaves the board and the three other robots as they are and
\* changes at most the column of the robot for Right and Left and at most its row for Up and
\* Down; so every successor that reachable_positions yields differs from the state in the
\* position of exactly one robot.
C16_MoveFrame ==
    [][/\ (call.pc = "loop" /\ call'.pc = "returned") =>
             /\ game_board' = game_board
             /\ \A q \in Robot \ {call.robot} : returned'[q] = call.self[q]
             /\ call.direction \in {"Right", "Left"} =>
                    row(returned'[call.robot]) = row(call.self[call.robot])
             /\ call.direction \in {"Up", "Down"} =>
                    column(returned'[call.robot]) = column(call.self[call.robot])
       /\ (call'.name = "reachable_positions" /\ call'.pc = "returned") =>
             /\ game_board' = game_board
             /\ \A k \in DOMAIN returned' :
                   Cardinality({q \in Robot : returned'[k][1][q] # robot_positions[q]}) = 1]_vars

\* A robot has moved along its row while another robot stands in another row of its column.
C16_Witness ==
    /\ Moved
    /\ call.direction \in {"Right", "Left"}
    /\ column(returned[call.robot]) # column(call.self[call.robot])
    /\ \E q \in Robot \ {call.robot} :
          /\ column(call.self[q]) = column(call.self[call.robot])
          /\ returned[q] = call.self[q]

\* C17: on an enclosed board a slide from positions with the four robots on distinct fields
\* leads to positions with the four robots on distinct fields, so every sequence of slides
\* from such positions keeps the robots apart.
C17_RobotsStayApart ==
    [][(Enclosed(game_board) /\ Distinct(robot_positions)) => Distinct(robot_positions')]_vars

\* A robot has slid up to the field next to another robot, and the robots are on distinct
\* fields as before.
C17_Witness ==
    /\ Moved /\ Enclosed(game_board) /\ Distinct(call.self) /\ Distinct(robot_positions)
    /\ loops = 1
    /\ LET at == robot_positions[call.robot]
       IN  Occupied(robot_positions, column(at) + Dx(call.direction),
                    row(at) + Dy(call.direction))

\* C18: on an enclosed board with the robots on the board, every slide keeps the robots on
\* the board and no step of a slide wraps around an edge: each step changes the column by one
\* for Right and Left or the row by one for Down and Up, in the direction of the slide, so
\* Right never decreases the column, Left never increases it, Down never decreases the row
\* and Up never increases it.
C18_SlidesStayOnBoard ==
    [][(Enclosed(game_board) /\ InBounds(game_board, robot_positions)) =>
          /\ InBounds(game_board, robot_positions')
          /\ (call.pc = "loop" /\ loops' = loops + 1) =>
                 /\ column(temp_pos') = column(temp_pos) + Dx(call.direction)
                 /\ row(temp_pos') = row(temp_pos) + Dy(call.direction)
          /\ (call.pc = "loop" /\ call'.pc = "returned") =>
                 LET from == call.self[call.robot]
                     to == robot_positions'[call.robot]
                 IN  /\ call.direction = "Right" => column(to) >= column(from)
                     /\ call.direction = "Left" => column(to) <= column(from)
                     /\ call.direction = "Down" => row(to) >= row(from)
                     /\ call.direction = "Up" => row(to) <= row(from)]_vars

\* A robot in the first row was sent up, or a robot in the first column was sent left, and
\* it is where it was, while another slide has crossed the whole board of side four.
C18_Witness ==
    /\ Moved /\ Enclosed(game_board)
    /\ \/ call.direction = "Up" /\ row(call.self[call.robot]) = 0
       \/ call.direction = "Left" /\ column(call.self[call.robot]) = 0
    /\ returned = call.self
    /\ side_length(game_board) = 4
    /\ \E q \in Robot : column(robot_positions[q]) = 3

C20_TargetReached ==
    (call.name = "target_reached" /\ call.pc = "returned") =>
        LET target == call.args[1]
            target_position == call.args[2]
        IN  /\ returned \in BOOLEAN
            /\ returned <=>
                  IF target = "Spiral"
                  THEN \E robot \in Robot : call.self[robot] = target_position
                  ELSE \E robot \in Robot :
                          robot = target /\ call.self[robot] = target_position

\* A coloured target whose position holds a robot of another colour only: not reached; the
\* same position with the target Spiral is reached in another call.
C20_Witness ==
    /\ call.name = "target_reached" /\ call.pc = "returned"
    /\ call.args[1] \in Robot
    /\ call.self[call.args[1]] # call.args[2]
    /\ \E robot \in Robot : call.self[robot] = call.args[2]
    /\ returned = FALSE
    /\ Distinct(call.self)

\* min_moves has returned for the robots and the round of the game.
MinMovesReturned == call.name = "min_moves" /\ call.pc = "returned"

\* The minimum number of slides from the robots of the game to a position that wins the
\* round (-1: no position wins).
SlidesToWin == SlidesFrom(round, {robot_positions}, {robot_positions}, 0)

\* C21: on an enclosed board with the robots on distinct fields, when a winning position is
\* reachable in a minimum of L slides, min_moves of the least-moves board of the round is at
\* most L, for coloured targets and for the spiral.
C21_NeverOverestimates ==
    (MinMovesReturned /\ Enclosed(game_board) /\ Distinct(call.args[1])) =>
        (SlidesToWin >= 0 => returned <= SlidesToWin)

\* A round that takes more slides than the lower bound says, the bound being at least two.
C21_Witness ==
    /\ MinMovesReturned /\ Enclosed(game_board) /\ Distinct(call.args[1])
    /\ returned >= 2
    /\ SlidesToWin > returned

\* The robot the target asks for, any robot for the spiral, stands on the target position.
OnTarget(robots, target, target_position) ==
    IF target = "Spiral" THEN \E q \in Robot : robots[q] = target_position
    ELSE robots[target] = target_position

\* C22: when the robot the target asks for (any robot for the spiral) stands on the target
\* position, min_moves is 0, whether or not the robots share fields.
C22_ZeroOnTarget ==
    (MinMovesReturned /\ OnTarget(call.args[1], call.args[2], call.self.target_position)) =>
        returned = 0

\* The spiral with a robot other than the red one on the target position and the red robot
\* elsewhere; and min_moves was 0.
C22_Witness ==
    /\ MinMovesReturned
    /\ call.args[2] = "Spiral"
    /\ call.args[1].Red # call.self.target_position
    /\ \E q \in Robot : call.args[1][q] = call.self.target_position
    /\ call.self.target_position = round.target_position
    /\ returned = 0

\* The loop `'outer: for move_n in 0..` of BreadthFirst::start on a fresh table, followed until
\* a position reaches the target ("goal") or no position is left to expand ("empty").
RECURSIVE BreadthFirstFrontier(_, _, _, _)
BreadthFirstFrontier(nodes, round_, current, move_n_) ==
    LET r == bfs_level([reached |-> None, nodes |-> nodes, next_positions |-> <<>>],
                       round_, current, 1, Len(current), move_n_)
    IN  IF r.reached # None THEN "goal"
        ELSE IF r.next_positions = <<>> THEN "empty"
        ELSE BreadthFirstFrontier(r.nodes, round_, r.next_positions, move_n_ + 1)

\* is_unsolvable has returned for the robots and the round of the game.
IsUnsolvableReturned == call.name = "is_unsolvable" /\ call.pc = "returned"

\* C23: on an enclosed board, when is_unsolvable answers true (min_moves is at least
\* side * side), the start does not win, no sequence of slides leads from the start to a
\* position that wins, and the breadth-first exploration reaches no goal: its frontier
\* runs empty.
C23_FlaggedIsUnreachable ==
    (IsUnsolvableReturned /\ Enclosed(game_board)) =>
        /\ returned \in BOOLEAN
        /\ returned <=>
              \A q \in (IF call.args[2] = "Spiral" THEN Robot ELSE {call.args[2]}) :
                  Index(call.self, call.args[1][q])
                      >= side_length(game_board) * side_length(game_board)
        /\ returned =>
              /\ ~OnTarget(call.args[1], call.args[2], round.target_position)
              /\ SlidesToWin = -1
              /\ BreadthFirstFrontier(NoNodes, round, <<call.args[1]>>, 0) = "empty"

\* is_unsolvable answered true for robots on distinct fields of which one can move.
C23_Witness ==
    /\ IsUnsolvableReturned /\ Enclosed(game_board)
    /\ returned = TRUE
    /\ Distinct(call.args[1])
    /\ Slides(game_board, {call.args[1]}) # {call.args[1]}
    /\ SlidesToWin = -1

\* The fields <<column, row>> of a board.
Cells(b) == (0..(side_length(b) - 1)) \X (0..(side_length(b) - 1))

\* Two different fields lie in one row or in one column and no wall stands between them.
Sees(b, p, q) ==
    \/ /\ p[1] = q[1] /\ p[2] < q[2]
       /\ \A r \in p[2]..(q[2] - 1) : ~b.walls[p[1]][r].down
    \/ /\ p[1] = q[1] /\ q[2] < p[2]
       /\ \A r \in q[2]..(p[2] - 1) : ~b.walls[p[1]][r].down
    \/ /\ p[2] = q[2] /\ p[1] < q[1]
       /\ \A c \in p[1]..(q[1] - 1) : ~b.walls[c][p[2]].right
    \/ /\ p[2] = q[2] /\ q[1] < p[1]
       /\ \A c \in q[1]..(p[1] - 1) : ~b.walls[c][p[2]].right

\* The length of the shortest chain of fields from the fields `seen` (the chains from the
\* target up to length k_, the last of them in `frontier`) to each field, each field of a chain
\* seeing the next; `dist` holds the lengths found so far and side * side elsewhere.
RECURSIVE ChainLengths(_, _, _, _, _)
ChainLengths(b, seen, frontier, k_, dist) ==
    LET next == {q \in Cells(b) \ seen : \E p \in frontier : Sees(b, p, q)}
    IN  IF next = {} THEN dist
        ELSE ChainLengths(b, seen \cup next, next, k_ + 1,
                          [q \in Cells(b) |-> IF q \in next THEN k_ + 1 ELSE dist[q]])

\* The chain lengths from the target position, side * side where no chain leads.
ChainLengthsFrom(b, target_position) ==
    ChainLengths(b, {Cell(target_position)}, {Cell(target_position)}, 0,
                 [q \in Cells(b) |->
                     IF q = Cell(target_position) THEN 0
                     ELSE side_length(b) * side_length(b)])

\* LeastMovesBoard::new has returned.
LeastMovesBoardBuilt == call.name = "LeastMovesBoard::new" /\ call.pc = "returned"

\* C28: on an enclosed board LeastMovesBoard::new gives each field the length of the shortest
\* chain of fields from the target position to it in which each field sees the next (same row
\* or column, no wall between, robots ignored), 0 to the target position and side * side to
\* the fields no chain leads to; on the board of tests::walled_move_board it gives the table
\* of that test.
C28_TableIsChainLength ==
    (LeastMovesBoardBuilt /\ Enclosed(call.args[1])) =>
        /\ returned.target_position = call.args[2]
        /\ DOMAIN returned.board = 0..(side_length(call.args[1]) - 1)
        /\ \A q \in Cells(call.args[1]) :
              returned.board[q[1]][q[2]] = ChainLengthsFrom(call.args[1], call.args[2])[q]
        /\ returned.board[column(call.args[2])][row(call.args[2])] = 0
        /\ (call.args[1] = BoardWalled(3) /\ call.args[2] = PositionNew(0, 0)) =>
              returned.board = (0 :> (0 :> 0 @@ 1 :> 3 @@ 2 :> 3)
                                @@ 1 :> (0 :> 1 @@ 1 :> 2 @@ 2 :> 3)
                                @@ 2 :> (0 :> 1 @@ 1 :> 2 @@ 2 :> 2))

\* A table of a board of side 3 with a field two moves from the target position and a field
\* no chain leads to.
C28_Witness ==
    /\ LeastMovesBoardBuilt /\ Enclosed(call.args[1])
    /\ \E q \in Cells(call.args[1]) : returned.board[q[1]][q[2]] = 2
    /\ \E q \in Cells(call.args[1]) :
          returned.board[q[1]][q[2]] = side_length(call.args[1]) * side_length(call.args[1])
    /\ side_length(call.args[1]) = 3

\* wall_enclosure has returned.
Enclosure == call.name = "wall_enclosure" /\ call.pc = "returned"

\* C24: after wall_enclosure on a board of side n >= 1 a wall is adjacent to every field of
\* column 0 towards Left, of column n - 1 towards Right, of row 0 towards Up and of row n - 1
\* towards Down; and no wall bit differs from the board before but the right bits of column
\* n - 1 and the down bits of row n - 1, which are set.
C24_EnclosureSetsOuterWalls ==
    Enclosure =>
        LET n == side_length(call.self)
            last == n - 1
        IN  /\ side_length(returned) = n
            /\ \A k \in 0..last :
                  /\ is_adjacent_to_wall(returned, PositionNew(0, k), "Left")
                  /\ is_adjacent_to_wall(returned, PositionNew(last, k), "Right")
                  /\ is_adjacent_to_wall(returned, PositionNew(k, 0), "Up")
                  /\ is_adjacent_to_wall(returned, PositionNew(k, last), "Down")
            /\ \A c \in 0..last, r \in 0..last :
                  /\ returned.walls[c][r].right = (c = last \/ call.self.walls[c][r].right)
                  /\ returned.walls[c][r].down = (r = last \/ call.self.walls[c][r].down)

\* A board of side 3 with a wall inside is enclosed: the wall inside is kept, and a field
\* that is not on the right or lower edge has no wall.
C24_Witness ==
    /\ Enclosure
    /\ side_length(call.self) = 3
    /\ call.self.walls[1][0].right /\ returned.walls[1][0].right
    /\ ~call.self.walls[2][2].right /\ returned.walls[2][2].right
    /\ ~returned.walls[0][0].down /\ ~returned.walls[0][0].right

\* The direction opposite to a direction.
Opposite(d) ==
    CASE d = "Right" -> "Left" [] d = "Left" -> "Right" [] d = "Up" -> "Down" [] d = "Down" -> "Up"

\* is_adjacent_to_wall has returned.
AdjacencyAsked == call.name = "is_adjacent_to_wall" /\ call.pc = "returned"

\* C25: on every square board, for every field p of it and every direction d,
\* is_adjacent_to_wall(p, d) equals is_adjacent_to_wall of the neighbour p.to_direction(d, side)
\* in the opposite direction; Right and Down read the field's own bits, Left reads the right
\* bit of the field to the west and Up the down bit of the field to the north, both found
\* with wraparound.
C25_WallsAreSymmetric ==
    AdjacencyAsked =>
        LET b == call.self
            pos == call.args[1]
            d == call.args[2]
            n == side_length(b)
            c == column(pos)
            r == row(pos)
        IN  /\ returned = is_adjacent_to_wall(b, to_direction(pos, d, n), Opposite(d))
            /\ returned = CASE d = "Right" -> b.walls[c][r].right
                            [] d = "Down" -> b.walls[c][r].down
                            [] d = "Left" -> b.walls[(c + n - 1) % n][r].right
                            [] d = "Up" -> b.walls[c][(r + n - 1) % n].down

\* A field of the first column of a board of side 3 has a wall to its left that is the right
\* wall of the field of the last column, and no wall to its right.
C25_Witness ==
    /\ AdjacencyAsked
    /\ side_length(call.self) = 3
    /\ call.args[2] = "Left" /\ column(call.args[1]) = 0
    /\ returned = TRUE
    /\ call.self.walls[2][row(call.args[1])].right
    /\ ~call.self.walls[0][row(call.args[1])].right

\* to_sorted_array has returned.
SortedArrayAsked == call.name = "to_sorted_array" /\ call.pc = "returned"

\* C26: to_sorted_array returns an array with the position of main_robot at index 0 and the
\* positions of the other three robots at the indices 1, 2 and 3 in ascending order.
C26_OthersSorted ==
    SortedArrayAsked =>
        LET self == call.self
            main_robot == call.args[1]
            others == Robot \ {main_robot}
        IN  /\ Len(returned) = 4
            /\ returned[1] = self[main_robot]
            /\ returned[2] <= returned[3] /\ returned[3] <= returned[4]
            /\ \A p \in {self[q] : q \in others} :
                  Cardinality({k \in 2..4 : returned[k] = p})
                      = Cardinality({q \in others : self[q] = p})

\* The array holds the position of main_robot at index 0 and the positions of the others
\* behind it, but the position at index 3 is smaller than the one at index 2.
C26_Witness ==
    /\ SortedArrayAsked
    /\ returned[1] = call.self[call.args[1]]
    /\ {returned[k] : k \in 2..4} = {call.self[q] : q \in Robot \ {call.args[1]}}
    /\ returned[2] <= returned[3]
    /\ returned[4] < returned[3]

\* Position::new has returned.
Packed == call.name = "Position::new" /\ call.pc = "returned"

\* C27: for column and row in 0..=255 the position Position::new packs fits the 16 bits of
\* the encoding, column() and row() give back the column and the row, and another pair of
\* coordinates gives another position.
C27_PackingLosesNothing ==
    Packed =>
        /\ returned.position \in 0..PositionEncodingMax
        /\ returned.column = call.args[1]
        /\ returned.row = call.args[2]
        /\ \A c \in PackedCoordinates, r \in PackedCoordinates :
              (PositionNew(c, r) = returned.position) <=> (<<c, r>> = call.args)

\* The greatest column with a row that fills the low half of the bits but for one.
C27_Witness ==
    /\ Packed
    /\ call.args = <<255, 127>>
    /\ returned.position = 255 * 256 + 127
    /\ returned.column = 255 /\ returned.row = 127

\* add_node has returned: the table before the call, the table after it, and the arguments.
NodeAdded == call.name = "add_node" /\ call.pc = "returned"

TableBefore == call.self

TableAfter == visited_nodes.BreadthFirst

\* The record a call of add_node asks to store.
Asked(args) ==
    [moves_to_reach |-> args[3], previous_position |-> args[2],
     robot |-> args[4][1], direction |-> args[4][2]]

\* C29: add_node returns New and inserts the record (cost, from, moved) when the state is
\* absent; returns BetterKnown when the state is present with moves_to_reach <= cost; returns
\* WorseKnown and replaces the record by (cost, from, moved) when the state is present with
\* moves_to_reach > cost.
C29_AddNodeOutcomes ==
    NodeAdded =>
        LET state == call.args[1]
            cost == call.args[3]
        IN  /\ state \notin DOMAIN TableBefore =>
                  /\ returned = "New"
                  /\ state \in DOMAIN TableAfter /\ TableAfter[state] = Asked(call.args)
            /\ (state \in DOMAIN TableBefore /\ TableBefore[state].moves_to_reach <= cost) =>
                  returned = "BetterKnown"
            /\ (state \in DOMAIN TableBefore /\ TableBefore[state].moves_to_reach > cost) =>
                  /\ returned = "WorseKnown"
                  /\ TableAfter[state] = Asked(call.args)
                  /\ TableAfter[state] # TableBefore[state]

\* A state stored with three moves from one position is added with one move from another:
\* WorseKnown, and the record is the new one.
C29_Witness ==
    /\ NodeAdded
    /\ returned = "WorseKnown"
    /\ TableBefore[call.args[1]].moves_to_reach = 3
    /\ call.args[3] = 1
    /\ TableBefore[call.args[1]].previous_position # call.args[2]
    /\ TableAfter[call.args[1]].previous_position = call.args[2]
    /\ TableAfter[call.args[1]].moves_to_reach = 1

\* C30: a call of add_node removes no key and raises no stored moves_to_reach; it changes the
\* record of a state only if it is the state of the call and the cost is strictly smaller than
\* the stored one; a call whose cost is equal to or larger than the stored one leaves the
\* whole table as it was, so that among equal costs the first predecessor stays.
C30_TableOnlyImproves ==
    [][call'.name = "add_node" =>
          LET before == visited_nodes.BreadthFirst
              after == visited_nodes'.BreadthFirst
              state == call'.args[1]
              cost == call'.args[3]
          IN  /\ call'.self = before
              /\ DOMAIN before \subseteq DOMAIN after
              /\ DOMAIN after \subseteq DOMAIN before \cup {state}
              /\ \A k \in DOMAIN before :
                    /\ after[k].moves_to_reach <= before[k].moves_to_reach
                    /\ after[k] # before[k] =>
                          k = state /\ cost < before[k].moves_to_reach
              /\ (state \in DOMAIN before /\ cost >= before[state].moves_to_reach) =>
                    after = before]_vars

\* A state stored with two moves is added again with two moves from another position and by
\* another movement: BetterKnown, and the table with two states is as before.
C30_Witness ==
    /\ NodeAdded
    /\ returned = "BetterKnown"
    /\ call.args[3] = 2
    /\ TableBefore[call.args[1]].moves_to_reach = 2
    /\ TableBefore[call.args[1]].previous_position # call.args[2]
    /\ reached_with(TableBefore[call.args[1]]) # call.args[4]
    /\ TableAfter = TableBefore
    /\ DOMAIN TableAfter = Keys

\* path_to has returned or panicked; the table it was called on and the state asked for.
PathAsked == call.name = "path_to" /\ call.pc = "returned"

\* The states from `state` back along the previous positions, up to and including the first
\* state without a record or with a record of one move.
RECURSIVE ChainFrom(_, _)
ChainFrom(nodes, state) ==
    IF state \notin DOMAIN nodes THEN <<state>>
    ELSE IF nodes[state].moves_to_reach = 1 THEN <<state>>
    ELSE <<state>> \o ChainFrom(nodes, nodes[state].previous_position)

\* C31: path_to(state) returns a Path whose movements are the reached_with of the records along
\* the chain of previous positions from state back to the first record with moves_to_reach
\* = 1, in the order from the start to state, whose start_pos is the previous position of
\* that record and whose end_pos is state; if a state of the chain, state included, has no
\* record, path_to panics instead.
C31_PathFollowsChain ==
    PathAsked =>
        LET nodes == call.self
            state == call.args[1]
            chain == ChainFrom(nodes, state)
            n == Len(chain)
        IN  IF chain[n] \notin DOMAIN nodes
            THEN returned = Panic("Failed to find a supposed source position")
            ELSE /\ IsPath(returned)
                 /\ returned.end_pos = state
                 /\ returned.start_pos = nodes[chain[n]].previous_position
                 /\ Len(returned.movements) = n
                 /\ \A k \in 1..n :
                       returned.movements[k] =
                           <<nodes[chain[n + 1 - k]].robot, nodes[chain[n + 1 - k]].direction>>

\* A path of two different movements: the record of the state has three moves and leads to a
\* record of one move from a position that has no record.
C31_Witness ==
    /\ PathAsked
    /\ IsPath(returned)
    /\ Len(returned.movements) = 2
    /\ returned.movements[1] # returned.movements[2]
    /\ call.self[call.args[1]].moves_to_reach = 3
    /\ returned.movements[2] = reached_with(call.self[call.args[1]])
    /\ returned.start_pos = StartC

\* A step of AStar::solve that pops a position and runs the `for` loop over its successors.
Expanding == pc = "AStar" /\ pc' = "AStar" /\ open_list' # open_list

\* The position that step has popped: the one that has left the open list.
Popped == CHOOSE s \in DOMAIN open_list : s \notin DOMAIN open_list'

\* The locals of AStar::solve after the first k iterations of the `for` loop of that step.
AfterSuccessors(k) ==
    expand_loop([nodes |-> visited_nodes.AStar,
                 open_list |-> remove(open_list, Popped),
                 found_minimum |-> found_minimum,
                 found_final_position |-> found_final_position],
                round, move_board.AStar, Popped, open_list[Popped],
                SubSeq(reachable_positions(Popped, round.board), 1, k), 1)

\* C32: during AStar::solve found_minimum and found_final_position are replaced only by an
\* iteration of the `for` loop whose successor wins and is reached with a number of moves
\* strictly smaller than found_minimum; found_minimum never increases; a successor that wins
\* is not pushed onto the open list.
C32_BestOnlyImproves ==
    [][Expanding =>
          LET reachable == reachable_positions(Popped, round.board)
              moves_from_start == open_list[Popped].from_start + 1
          IN  /\ AfterSuccessors(Len(reachable)).found_minimum = found_minimum'
              /\ AfterSuccessors(Len(reachable)).found_final_position = found_final_position'
              /\ \A k \in 1..Len(reachable) :
                    LET before == AfterSuccessors(k - 1)
                        after == AfterSuccessors(k)
                        pos == reachable[k][1]
                    IN  /\ after.found_minimum <= before.found_minimum
                        /\ (\/ after.found_minimum # before.found_minimum
                            \/ after.found_final_position # before.found_final_position) =>
                              /\ target_reached(round, pos)
                              /\ moves_from_start < before.found_minimum
                              /\ after.found_minimum = moves_from_start
                              /\ after.found_final_position = pos
                        /\ target_reached(round, pos) => after.open_list = before.open_list
              /\ \A s \in DOMAIN open_list' : ~target_reached(round, s)]_vars

\* AStar::solve has found two winning successors of one position, both with found_minimum
\* moves, and holds the one that reachable_positions yields later.
C32_Witness ==
    /\ pc = "AStar"
    /\ found_final_position \in DOMAIN visited_nodes.AStar
    /\ \E s \in DOMAIN visited_nodes.AStar :
          LET first == visited_nodes.AStar[s]
              kept == visited_nodes.AStar[found_final_position]
          IN  /\ s # found_final_position
              /\ target_reached(round, s)
              /\ target_reached(round, found_final_position)
              /\ first.moves_to_reach = found_minimum
              /\ kept.moves_to_reach = found_minimum
              /\ first.previous_position = kept.previous_position
              /\ Rank(<<first.robot, first.direction>>) < Rank(<<kept.robot, kept.direction>>)

(***************************************************************************)
(* The open list of AStar: a PriorityQueue of MoveCounters, as the tests   *)
(* move_counter_ordering and move_counter_priority_queue use it.           *)
(***************************************************************************)

\* The items of the test move_counter_priority_queue.
Items == {"first", "second", "third", "fourth"}

\* The counters of the tests, MoveCounter::new(from_start, to_target), and one more
\* that shares the total of five_two.
Counters ==
    {MoveCounterNew(5, 5), MoveCounterNew(3, 7), MoveCounterNew(2, 3), MoveCounterNew(3, 2)}

\* PriorityQueue::push_increase(item, priority); `returned` restarts the list of pops.
QueuePushCall ==
    \E item \in Items, priority \in Counters :
        /\ open_list' = push_increase(open_list, item, priority)
        /\ call' = CallOf("push_increase", open_list, "none", "none", <<item, priority>>,
                          "returned")
        /\ returned' = <<>>
        /\ UNCHANGED <<game_board, robot_positions, temp_pos, loops, calls, pc, round,
                       start_positions, visited_nodes, move_board, current_move_positions,
                       move_n, found_minimum, found_final_position, i, results, environment>>

\* PriorityQueue::pop on a queue that holds an item; `returned` lists the priorities popped
\* since the last push.
QueuePopCall ==
    /\ open_list # <<>>
    /\ \E item \in PopCandidates(open_list) :
          /\ open_list' = remove(open_list, item)
          /\ call' = CallOf("pop", open_list, "none", "none", <<item>>, "returned")
          /\ returned' = (IF call.name = "pop" THEN returned ELSE <<>>) \o <<open_list[item]>>
    /\ UNCHANGED <<game_board, robot_positions, temp_pos, loops, calls, pc, round,
                   start_positions, visited_nodes, move_board, current_move_positions,
                   move_n, found_minimum, found_final_position, i, results, environment>>

NextQueue ==
    \/ QueuePushCall
    \/ QueuePopCall

SpecQueue == InitVisited /\ [][NextQueue]_vars

\* pop has returned.
Popping == call.name = "pop" /\ call.pc = "returned"

\* a comes before b in the lexicographic order of (total, from_start).
LexBefore(a, b) == a.total < b.total \/ (a.total = b.total /\ a.from_start < b.from_start)

\* C33: pop returns an item of the queue such that no item of the queue comes before it in
\* the order of (total, from_start), so an item with a smaller total, or with the same total
\* and a smaller from_start, is popped first; the priorities popped with no push in between
\* never decrease in that order.
C33_PopsLowestTotalFirst ==
    Popping =>
        /\ call.args[1] \in DOMAIN call.self
        /\ returned[Len(returned)] = call.self[call.args[1]]
        /\ \A other \in DOMAIN call.self :
              ~LexBefore(call.self[other], call.self[call.args[1]])
        /\ \A k \in 1..(Len(returned) - 1) : ~LexBefore(returned[k + 1], returned[k])

\* The queue of the test move_counter_priority_queue has been emptied by four pops, which
\* returned (5,2), (10,3), (10,3), (10,5) as (total, from_start).
C33_Witness ==
    /\ Popping
    /\ open_list = <<>>
    /\ returned = <<MoveCounterNew(2, 3), MoveCounterNew(3, 7), MoveCounterNew(3, 7),
                    MoveCounterNew(5, 5)>>

(***************************************************************************)
(* The environment: a RustyEnvironment over its EnvironmentBuilder.  The   *)
(* random number generator of the builder is a choice among what it may    *)
(* deliver.                                                                *)
(***************************************************************************)

CENTER_WALLS_FROM_SIDE_LENGTH == 10

\* impl From<TargetColor> for Target
TargetFromColor(tc) == IF tc = "Any" THEN "Spiral" ELSE tc

\* The number `observation` reports for the target of the round.
TargetNumber(target) ==
    CASE target = "Red" -> 0
      [] target = "Blue" -> 1
      [] target = "Green" -> 2
      [] target = "Yellow" -> 3
      [] target = "Spiral" -> 4

\* impl FromPyObject for Action
ActionExtract(raw_action) ==
    [robot |-> ROBOTS[(raw_action \div 4) + 1],
     direction |-> <<"Up", "Right", "Down", "Left">>[(raw_action % 4) + 1]]

\* The boards BoardGenerator::generate_game may build for a side length; the first one
\* stands for the board of the seed WALLS_SEED.
GeneratedBoards(board_size) == <<BoardRows(board_size), BoardSplit(board_size)>>

\* The targets of TargetConfig::FromList.
TargetList == <<(<<"Red", (<<1, 0>>)>>), (<<"Any", (<<2, 2>>)>>)>>

\* Four coordinates as the generator may deliver them to new_positions.
RngDraws ==
    {<<(<<0, 0>>), (<<0, 1>>), (<<1, 1>>), (<<2, 0>>)>>,
     <<(<<1, 0>>), (<<2, 2>>), (<<0, 0>>), (<<0, 1>>)>>,
     <<(<<2, 0>>), (<<0, 2>>), (<<1, 2>>), (<<0, 1>>)>>,
     <<(<<1, 1>>), (<<1, 1>>), (<<0, 1>>), (<<2, 0>>)>>,
     <<(<<0, 0>>), (<<0, 0>>), (<<0, 0>>), (<<0, 0>>)>>,
     <<(<<3, 0>>), (<<0, 3>>), (<<1, 1>>), (<<2, 2>>)>>}

\* The configurations an environment is built with: (board_size, walls, targets, robots).
EnvironmentBuilders ==
    {[board_size |-> 3, walls |-> walls, targets |-> TargetList, robots |-> robots] :
        walls \in {"Fix", "Random"}, robots \in {<<"Random">>, <<"Fix", StartA>>}}

\* EnvironmentBuilder::new_round: the rounds it may return.
new_round(self) ==
    LET boards == GeneratedBoards(self.board_size)
        games == IF self.walls = "Fix" THEN {boards[1]} ELSE {boards[k] : k \in DOMAIN boards}
    IN  {RoundNew(board, TargetFromColor(self.targets[k][1]),
                  PositionNew(self.targets[k][2][1], self.targets[k][2][2])) :
            board \in games, k \in DOMAIN self.targets}

\* A position of the array lies inside the center walls.
InCenterWalls(board_size, pos) ==
    LET start == (board_size \div 2) - 1
        end == start + 1
    IN  \E k \in DOMAIN pos : pos[k][1] \in start..end /\ pos[k][2] \in start..end

\* EnvironmentBuilder::new_positions: the positions it may return.
new_positions(self) ==
    IF self.robots[1] = "Fix"
    THEN {self.robots[2]}
    ELSE {from_tuples(pos) :
            pos \in {draw \in RngDraws :
                        /\ \A k \in DOMAIN draw :
                              draw[k][1] < self.board_size /\ draw[k][2] < self.board_size
                        /\ ~(/\ self.board_size >= CENTER_WALLS_FROM_SIDE_LENGTH
                             /\ InCenterWalls(self.board_size, draw))}}

\* create_wall_bitboards: the walls to the right and the walls below, indexed [row][col].
create_wall_bitboards(board) ==
    LET size == side_length(board)
    IN  <<[r \in 0..(size - 1) |-> [c \in 0..(size - 1) |-> board.walls[c][r].right]],
          [r \in 0..(size - 1) |-> [c \in 0..(size - 1) |-> board.walls[c][r].down]]>>

\* robot_positions_as_vec
robot_positions_as_vec(pos) ==
    [k \in 1..4 |-> <<column(to_array(pos)[k]), row(to_array(pos)[k])>>]

\* RustyEnvironment::observation
observation(self) ==
    <<self.wall_observation[1], self.wall_observation[2],
      robot_positions_as_vec(self.current_position),
      <<column(self.round.target_position), row(self.round.target_position)>>,
      TargetNumber(self.round.target)>>

\* RustyEnvironment::new_seeded; the loop draws positions until they do not win.
NewSeededCall ==
    /\ environment = None
    /\ \E config \in EnvironmentBuilders :
          \E new \in new_round(config) :
              \E pos \in {p \in new_positions(config) : ~target_reached(new, p)} :
                  /\ environment' = [config |-> config,
                                     round |-> new,
                                     wall_observation |-> create_wall_bitboards(new.board),
                                     starting_position |-> pos,
                                     current_position |-> pos,
                                     steps_taken |-> 0]
                  /\ call' = CallOf("new_seeded", None, "none", "none", <<config>>, "returned")
                  /\ returned' = None
    /\ UNCHANGED <<game_board, robot_positions, temp_pos, loops, solver_vars>>

\* RustyEnvironment::step; the reward is 1 for 1.0 and 0 for 0.0.
StepCall ==
    /\ environment # None
    /\ \E raw_action \in 0..15 :
          LET action == ActionExtract(raw_action)
              moved == [environment EXCEPT !.current_position =
                           move_in_direction(environment.current_position,
                                             environment.round.board,
                                             action.robot, action.direction)]
              won == target_reached(moved.round, moved.current_position)
          IN  /\ environment' = moved
              /\ call' = CallOf("step", None, action.robot, action.direction,
                                <<raw_action>>, "returned")
              /\ returned' = <<observation(moved), IF won THEN 1 ELSE 0, won>>
    /\ UNCHANGED <<game_board, robot_positions, temp_pos, loops, solver_vars>>

\* RustyEnvironment::reset; the loop draws positions until they do not win.
ResetCall ==
    /\ environment # None
    /\ \E new \in new_round(environment.config) :
          \E pos \in {p \in new_positions(environment.config) : ~target_reached(new, p)} :
              LET fresh == [config |-> environment.config,
                            round |-> new,
                            wall_observation |->
                                IF environment.config.walls # "Fix"
                                THEN create_wall_bitboards(new.board)
                                ELSE environment.wall_observation,
                            starting_position |-> pos,
                            current_position |-> pos,
                            steps_taken |-> 0]
              IN  /\ environment' = fresh
                  /\ call' = CallOf("reset", None, "none", "none", <<>>, "returned")
                  /\ returned' = observation(fresh)
    /\ UNCHANGED <<game_board, robot_positions, temp_pos, loops, solver_vars>>

NextEnvironment ==
    \/ NewSeededCall
    \/ StepCall
    \/ ResetCall

SpecEnvironment == InitVisited /\ [][NextEnvironment]_vars

\* C34: step replaces current_position by move_in_direction of the action's robot and
\* direction on the board of the round; it returns done = true and the reward 1.0 exactly
\* when the robot the target asks for (any robot for the spiral) then stands on the target
\* position, and done = false and the reward 0.0 otherwise; round, wall_observation and
\* starting_position stay as they were.
C34_StepMovesAndRewards ==
    [][call'.name = "step" =>
          LET won == OnTarget(environment'.current_position, environment.round.target,
                              environment.round.target_position)
          IN  /\ environment'.current_position =
                    move_in_direction(environment.current_position, environment.round.board,
                                      call'.robot, call'.direction)
              /\ returned'[3] = won
              /\ returned'[2] = (IF won THEN 1 ELSE 0)
              /\ environment'.round = environment.round
              /\ environment'.wall_observation = environment.wall_observation
              /\ environment'.starting_position = environment.starting_position]_vars

\* A step has moved the red robot onto the target position of a red target and returned
\* done = true with the reward 1.0.
C34_Witness ==
    /\ call.name = "step"
    /\ returned[3] /\ returned[2] = 1
    /\ environment.current_position # environment.starting_position
    /\ environment.round.target = "Red"

EnvironmentInBounds ==
    environment # None =>
        /\ InBounds(environment.round.board, environment.current_position)
        /\ InBounds(environment.round.board, environment.starting_position)

\* C36: on an enclosed board with the robots on distinct fields, one slide of one robot
\* changes min_moves of the least-moves board by at most 1 when both values are below
\* side * side; this holds for the robots of the game and for every position one slide away
\* from them.
C36_HeuristicIsConsistent ==
    (MinMovesReturned /\ Enclosed(game_board) /\ Distinct(call.args[1])) =>
        LET bound == side_length(game_board) * side_length(game_board)
            Near(a, b) == (a < bound /\ b < bound) => (a - b <= 1 /\ b - a <= 1)
        IN  \A q \in Robot, d \in Direction :
                LET s == move_in_direction(call.args[1], game_board, q, d)
                    h == min_moves(call.self, s, call.args[2])
                IN  /\ Near(returned, h)
                    /\ \A p \in Robot, e \in Direction :
                          Near(h, min_moves(call.self,
                                            move_in_direction(s, game_board, p, e),
                                            call.args[2]))

\* min_moves is at least 2 and below side * side for robots on distinct fields of an enclosed
\* board, one slide lowers it by 1 and another slide raises it by 1.
C36_Witness ==
    /\ MinMovesReturned /\ Enclosed(game_board) /\ Distinct(call.args[1])
    /\ returned >= 2
    /\ returned < side_length(game_board) * side_length(game_board)
    /\ \E q \in Robot, d \in Direction :
          min_moves(call.self, move_in_direction(call.args[1], game_board, q, d),
                    call.args[2]) = returned - 1
    /\ \E q \in Robot, d \in Direction :
          min_moves(call.self, move_in_direction(call.args[1], game_board, q, d),
                    call.args[2]) = returned + 1

\* C37: while AStar::solve runs, the least-moves board of the round holds 0 on the target
\* position and on no other field; min_moves is 0 for no position of the open list or of the
\* visited nodes unless the robot the target asks for (any robot for the spiral) stands on
\* the target position; and every position of the open list that does not win was pushed
\* with an estimate of at least 1 move to the target.
C37_ZeroOnlyOnTarget ==
    pc = "AStar" =>
        LET known == DOMAIN visited_nodes.AStar \cup DOMAIN open_list \cup {start_positions}
            Won(s) == OnTarget(s, round.target, round.target_position)
        IN  /\ \A p \in Fields(round.board) :
                  move_board.AStar.board[column(p)][row(p)] = 0 <=> p = round.target_position
            /\ \A s \in known : min_moves(move_board.AStar, s, round.target) = 0 => Won(s)
            /\ \A s \in DOMAIN open_list :
                  ~Won(s) => open_list[s].total - open_list[s].from_start >= 1

\* AStar::solve holds a position that wins, for which min_moves is 0, and a position on the
\* open list that does not win and is estimated one move from the target.
C37_Witness ==
    /\ pc = "AStar"
    /\ \E s \in DOMAIN visited_nodes.AStar :
          /\ OnTarget(s, round.target, round.target_position)
          /\ min_moves(move_board.AStar, s, round.target) = 0
    /\ \E s \in DOMAIN open_list :
          /\ ~OnTarget(s, round.target, round.target_position)
          /\ open_list[s].total - open_list[s].from_start = 1

\* The positions AStar::solve has popped and expanded before the step, and the one the step
\* pops: the start, and the positions of the visited nodes that do not win and are not
\* waiting on the open list.
Expanded ==
    {Popped, start_positions}
        \cup {s \in DOMAIN visited_nodes.AStar :
                 s \notin DOMAIN open_list /\ ~target_reached(round, s)}

\* A step of AStar::solve that returns.
AStarReturns == pc = "AStar" /\ pc' = "idle"

\* C38: while AStar::solve runs on a fresh solver, the visited node of a position that was
\* popped and expanded is not overwritten, which is what add_node does when it returns
\* WorseKnown; when the solve returns a Path, the chain of previous positions from
\* found_final_position holds found_minimum visited nodes and the Path holds found_minimum
\* movements.
C38_ExpandedNodesAreFinal ==
    [][/\ Expanding =>
             \A s \in Expanded \cap DOMAIN visited_nodes.AStar :
                 /\ s \in DOMAIN visited_nodes'.AStar
                 /\ visited_nodes'.AStar[s] = visited_nodes.AStar[s]
       /\ (AStarReturns /\ IsPath(LastResult(results'))) =>
             /\ Len(ChainFrom(visited_nodes.AStar, found_final_position)) = found_minimum
             /\ Len(LastResult(results').movements) = found_minimum]_vars

\* AStar::solve has returned a Path of two movements that ends on the start, on an instance
\* without a winning position.
C38_Witness ==
    /\ MinSlides < 0
    /\ pc = "idle"
    /\ results # <<>>
    /\ results[Len(results)].solver = "AStar"
    /\ IsPath(LastResult(results))
    /\ Len(LastResult(results).movements) = 2
    /\ LastResult(results).end_pos = LastResult(results).start_pos

\* What C38 says holds of every AStar::solve that has found a winning position.
AStarGoalPathHasFoundMinimum ==
    [][/\ Expanding =>
             \A s \in Expanded \cap DOMAIN visited_nodes.AStar :
                 /\ s \in DOMAIN visited_nodes'.AStar
                 /\ visited_nodes'.AStar[s] = visited_nodes.AStar[s]
       /\ (AStarReturns /\ IsPath(LastResult(results')) /\ found_minimum < USIZE_MAX) =>
             /\ Len(ChainFrom(visited_nodes.AStar, found_final_position)) = found_minimum
             /\ Len(LastResult(results').movements) = found_minimum]_vars

\* The visited nodes of a running solve: those of BreadthFirst after a move number, those of
\* AStar after an expansion, and those of IdaStar after the depth-limited search of the
\* iteration i, before they are cleared or handed to path_to.
NodesOf(solver) ==
    IF solver = "IdaStar"
    THEN depth_limited_dfs(visited_nodes.IdaStar, round, move_board.IdaStar,
                           start_positions, 0, i).nodes
    ELSE visited_nodes[solver]

\* C39: while a fresh BreadthFirst, AStar or IdaStar solves, every visited node with
\* moves_to_reach = 1 has the start as its previous position, every visited node with
\* moves_to_reach = m >= 2 has a previous position with a visited node of at most m - 1
\* moves, and path_to of every position of the visited nodes ends without a panic in a Path
\* whose start_pos is the start.
C39_ChainsLeadToStart ==
    \A solver \in Solvers :
        (pc = solver /\ i <= MaxDepth) =>
            LET nodes == NodesOf(solver)
            IN  \A s \in DOMAIN nodes :
                    /\ nodes[s].moves_to_reach >= 1
                    /\ nodes[s].moves_to_reach = 1 =>
                          nodes[s].previous_position = start_positions
                    /\ nodes[s].moves_to_reach >= 2 =>
                          /\ nodes[s].previous_position \in DOMAIN nodes
                          /\ nodes[nodes[s].previous_position].moves_to_reach
                                <= nodes[s].moves_to_reach - 1
                    /\ PathLoopEnds(nodes, s, nodes[s].moves_to_reach)
                    /\ IsPath(path_to(nodes, s))
                    /\ path_to(nodes, s).start_pos = start_positions

\* AStar::solve holds a visited node of two moves for the start, which a robot left and came
\* back to, and a visited node of three moves or more.
C39_Witness ==
    /\ pc = "AStar"
    /\ start_positions \in DOMAIN visited_nodes.AStar
    /\ visited_nodes.AStar[start_positions].moves_to_reach = 2
    /\ \E s \in DOMAIN visited_nodes.AStar : visited_nodes.AStar[s].moves_to_reach >= 3

====
